---- MODULE Spec2Model ----
(***************************************************************************)
(* Email ingestion pipeline of the MCC portfolio agent                     *)
(* (src/mcc-portfolio-agent/azure-function-email-ingestion.py).            *)
(*                                                                         *)
(* Text is a sequence of one-character strings, so that Python's `in`,     *)
(* slicing, str.lower and the regular expressions of the source are        *)
(* computed character by character.  A Decimal is [coef, exp] with value   *)
(* coef * 10^exp, kept normalised (coef not divisible by 10), which is     *)
(* Decimal's numerical equality.  A confidence is an integer number of     *)
(* hundredths (0.85 is 85).                                                *)
(***************************************************************************)
EXTENDS Integers, Sequences, FiniteSets, Bags, TLC

(***************************************************************************)
(* Python string primitives                                                *)
(***************************************************************************)

\* str.lower on one character
LowerChar(c) ==
    CASE c = "A" -> "a" [] c = "B" -> "b" [] c = "C" -> "c" [] c = "D" -> "d"
      [] c = "E" -> "e" [] c = "F" -> "f" [] c = "G" -> "g" [] c = "H" -> "h"
      [] c = "I" -> "i" [] c = "J" -> "j" [] c = "K" -> "k" [] c = "L" -> "l"
      [] c = "M" -> "m" [] c = "N" -> "n" [] c = "O" -> "o" [] c = "P" -> "p"
      [] c = "Q" -> "q" [] c = "R" -> "r" [] c = "S" -> "s" [] c = "T" -> "t"
      [] c = "U" -> "u" [] c = "V" -> "v" [] c = "W" -> "w" [] c = "X" -> "x"
      [] c = "Y" -> "y" [] c = "Z" -> "z" [] OTHER -> c

\* str.lower
Lower(s) == [i \in 1..Len(s) |-> LowerChar(s[i])]

\* s[a:b] with 0 <= a, b <= len(s) (Python slice, 0-based, end exclusive)
Slice(s, a, b) == SubSeq(s, a + 1, b)

\* s.startswith(kw, i): kw occurs in s at 0-based offset i
At(s, i, kw) ==
    /\ i >= 0
    /\ i + Len(kw) <= Len(s)
    /\ \A j \in 1..Len(kw) : s[i + j] = kw[j]

\* kw in s
Contains(s, kw) == \E i \in 0..(Len(s) - Len(kw)) : At(s, i, kw)

\* re.IGNORECASE literal at offset i (kw given in lower case)
AtI(s, i, kw) ==
    /\ i >= 0
    /\ i + Len(kw) <= Len(s)
    /\ \A j \in 1..Len(kw) : LowerChar(s[i + j]) = kw[j]

Digits == {"0", "1", "2", "3", "4", "5", "6", "7", "8", "9"}

\* [0-9] at 0-based offset i
IsDigitAt(s, i) == i >= 0 /\ i < Len(s) /\ s[i + 1] \in Digits

\* \s at 0-based offset i
IsSpaceAt(s, i) == i >= 0 /\ i < Len(s) /\ s[i + 1] \in {" ", "\n", "\t"}

DigitVal(c) ==
    CASE c = "0" -> 0 [] c = "1" -> 1 [] c = "2" -> 2 [] c = "3" -> 3
      [] c = "4" -> 4 [] c = "5" -> 5 [] c = "6" -> 6 [] c = "7" -> 7
      [] c = "8" -> 8 [] c = "9" -> 9

\* number of consecutive characters from offset i that satisfy a greedy class,
\* capped at max: [0-9]{0,max}
RECURSIVE DigitRun(_, _, _)
DigitRun(s, i, max) ==
    IF max > 0 /\ IsDigitAt(s, i) THEN 1 + DigitRun(s, i + 1, max - 1) ELSE 0

\* \s* from offset i: the offset after the greedy run
RECURSIVE SkipSpace(_, _)
SkipSpace(s, i) == IF IsSpaceAt(s, i) THEN SkipSpace(s, i + 1) ELSE i

(***************************************************************************)
(* Decimal                                                                 *)
(***************************************************************************)

RECURSIVE Normalise(_)
Normalise(d) ==
    IF d.coef = 0 THEN [coef |-> 0, exp |-> 0]
    ELSE IF d.coef % 10 = 0 THEN Normalise([coef |-> d.coef \div 10, exp |-> d.exp + 1])
    ELSE d

\* int of a digit string
RECURSIVE DigitsToInt(_)
DigitsToInt(s) ==
    IF Len(s) = 0 THEN 0
    ELSE DigitsToInt(SubSeq(s, 1, Len(s) - 1)) * 10 + DigitVal(s[Len(s)])

\* Decimal(str) of digits with an optional ".digits" fraction
ParseDecimal(s) ==
    LET dots == {i \in 1..Len(s) : s[i] = "."}
    IN  IF dots = {} THEN Normalise([coef |-> DigitsToInt(s), exp |-> 0])
        ELSE LET p == CHOOSE i \in dots : TRUE
                 whole == SubSeq(s, 1, p - 1)
                 frac == SubSeq(s, p + 1, Len(s))
             IN  Normalise([coef |-> DigitsToInt(whole \o frac), exp |-> 0 - Len(frac)])

\* Decimal * 10^k
Scale(d, k) == Normalise([coef |-> d.coef, exp |-> d.exp + k])

\* str.replace(c, '') for one character c
RECURSIVE RemoveChar(_, _)
RemoveChar(s, c) ==
    IF Len(s) = 0 THEN <<>>
    ELSE IF Head(s) = c THEN RemoveChar(Tail(s), c)
    ELSE <<Head(s)>> \o RemoveChar(Tail(s), c)

(***************************************************************************)
(* PortfolioDataExtractor._classify_email                                  *)
(***************************************************************************)
\* _classify_email with the BOARD rule tested before the FINANCIALS rule
_classify_email_board_first(subject, body) ==
    LET classify(subject_lower, body_lower) ==
            IF \/ Contains(subject_lower, <<"[", "u", "p", "d", "a", "t", "e", "]">>)
               \/ Contains(subject_lower,
                           <<"m", "o", "n", "t", "h", "l", "y", " ", "u", "p", "d", "a", "t", "e">>)
            THEN "UPDATE"
            ELSE IF \/ Contains(subject_lower, <<"[", "b", "o", "a", "r", "d", "]">>)
                    \/ Contains(body_lower, <<"b", "o", "a", "r", "d", " ", "d", "e", "c", "k">>)
            THEN "BOARD"
            ELSE IF \/ Contains(subject_lower,
                                <<"[", "f", "i", "n", "a", "n", "c", "i", "a", "l", "s", "]">>)
                    \/ Contains(body_lower,
                                <<"f", "i", "n", "a", "n", "c", "i", "a", "l", " ",
                                  "s", "t", "a", "t", "e", "m", "e", "n", "t", "s">>)
            THEN "FINANCIALS"
            ELSE IF \/ Contains(subject_lower,
                                <<"[", "n", "o", "t", "e", "b", "o", "o", "k", "l", "m", "]">>)
                    \/ Contains(body_lower,
                                <<"n", "o", "t", "e", "b", "o", "o", "k", " ", "l", "m">>)
            THEN "NOTEBOOKLM"
            ELSE IF \/ Contains(subject_lower, <<"[", "c", "a", "p", "t", "a", "b", "l", "e", "]">>)
                    \/ Contains(body_lower, <<"c", "a", "p", " ", "t", "a", "b", "l", "e">>)
            THEN "CAPTABLE"
            ELSE "GENERAL"
    IN  classify(Lower(subject), Lower(body))

_classify_email(subject, body) ==
    LET classify(subject_lower, body_lower) ==
            IF \/ Contains(subject_lower, <<"[", "u", "p", "d", "a", "t", "e", "]">>)
               \/ Contains(subject_lower,
                           <<"m", "o", "n", "t", "h", "l", "y", " ", "u", "p", "d", "a", "t", "e">>)
            THEN "UPDATE"
            ELSE IF \/ Contains(subject_lower,
                                <<"[", "f", "i", "n", "a", "n", "c", "i", "a", "l", "s", "]">>)
                    \/ Contains(body_lower,
                                <<"f", "i", "n", "a", "n", "c", "i", "a", "l", " ",
                                  "s", "t", "a", "t", "e", "m", "e", "n", "t", "s">>)
            THEN "FINANCIALS"
            ELSE IF \/ Contains(subject_lower, <<"[", "b", "o", "a", "r", "d", "]">>)
                    \/ Contains(body_lower, <<"b", "o", "a", "r", "d", " ", "d", "e", "c", "k">>)
            THEN "BOARD"
            ELSE IF \/ Contains(subject_lower,
                                <<"[", "n", "o", "t", "e", "b", "o", "o", "k", "l", "m", "]">>)
                    \/ Contains(body_lower,
                                <<"n", "o", "t", "e", "b", "o", "o", "k", " ", "l", "m">>)
            THEN "NOTEBOOKLM"
            ELSE IF \/ Contains(subject_lower, <<"[", "c", "a", "p", "t", "a", "b", "l", "e", "]">>)
                    \/ Contains(body_lower, <<"c", "a", "p", " ", "t", "a", "b", "l", "e">>)
            THEN "CAPTABLE"
            ELSE "GENERAL"
    IN  classify(Lower(subject), Lower(body))

(***************************************************************************)
(* CompanyMatcher                                                          *)
(***************************************************************************)

\* Python's None where a company_id is expected
None == "<None>"

\* None where a text is expected: the source tests such values for truthiness
\* only, and None and '' are both falsy
NoText == <<>>

\* the rows of portfolio.company: company_id, legal_name, aka, website
CompanyTable ==
    << [company_id |-> "acme",
        legal_name |-> <<"A", "c", "m", "e", " ", "I", "n", "c">>,
        aka |-> NoText,
        website |-> <<"h", "t", "t", "p", "s", ":", "/", "/", "w", "w", "w", ".",
                      "a", "c", "m", "e", ".", "i", "o", "/", "h", "o", "m", "e">>],
       [company_id |-> "bolt",
        legal_name |-> <<"B", "o", "l", "t">>,
        aka |-> <<"B", "L", "T">>,
        website |-> NoText] >>

\* mappings[k] = v on an insertion-ordered dict, a sequence of <<key, value>>
DictSet(d, k, v) ==
    IF \E i \in 1..Len(d) : d[i][1] = k
    THEN [i \in 1..Len(d) |-> IF d[i][1] = k THEN <<k, v>> ELSE d[i]]
    ELSE Append(d, <<k, v>>)

DictHas(d, k) == \E i \in 1..Len(d) : d[i][1] = k

DictGet(d, k) == d[CHOOSE i \in 1..Len(d) : d[i][1] = k][2]

\* the run [^/]+ from offset i: its length
RECURSIVE NonSlashRun(_, _)
NonSlashRun(s, i) ==
    IF i < Len(s) /\ s[i + 1] # "/" THEN 1 + NonSlashRun(s, i + 1) ELSE 0

\* (?:https?://)?(?:www\.)?([^/]+) tried at offset i: <<TRUE, group 1, end>> for
\* the first alternative, in the order the regex engine tries them, that matches
WebsiteMatchAt(s, i) ==
    LET https == <<"h", "t", "t", "p", "s", ":", "/", "/">>
        http == <<"h", "t", "t", "p", ":", "/", "/">>
        www == <<"w", "w", "w", ".">>
        group(b, n) == <<TRUE, Slice(s, b, b + n), b + n>>
        pick(starts, ok) ==
            IF ok = {} THEN <<FALSE, <<>>, i>>
            ELSE group(starts[CHOOSE x \in ok : \A y \in ok : x <= y],
                       NonSlashRun(s, starts[CHOOSE x \in ok : \A y \in ok : x <= y]))
        try(starts) == pick(starts, {k \in 1..Len(starts) : NonSlashRun(s, starts[k]) > 0})
        after(scheme) ==
            try((IF scheme > 0 /\ At(s, i + scheme, www)
                 THEN <<i + scheme + Len(www)>> ELSE <<>>)
                \o (IF scheme > 0 THEN <<i + scheme>> ELSE <<>>)
                \o (IF At(s, i, www) THEN <<i + Len(www)>> ELSE <<>>)
                \o <<i>>)
    IN  after(IF At(s, i, https) THEN Len(https)
              ELSE IF At(s, i, http) THEN Len(http) ELSE 0)

\* re.findall(r'(?:https?://)?(?:www\.)?([^/]+)', website): the first match's
\* group, <<>> when there is no match
RECURSIVE WebsiteDomain(_, _)
WebsiteDomain(s, i) ==
    LET first(m) == IF m[1] THEN m[2] ELSE WebsiteDomain(s, i + 1)
    IN  IF i >= Len(s) THEN <<>> ELSE first(WebsiteMatchAt(s, i))

RECURSIVE LoadRows(_, _, _)
LoadRows(rows, n, mappings) ==
    LET aka(row, m2) ==
            IF Len(row.aka) > 0 THEN DictSet(m2, Lower(row.aka), row.company_id) ELSE m2
        legal_name(row, m1) ==
            aka(row, DictSet(m1, Lower(row.legal_name), row.company_id))
        website(row, domain) ==
            legal_name(row, IF Len(domain) > 0
                            THEN DictSet(mappings, Lower(domain), row.company_id)
                            ELSE mappings)
        load(row) ==
            website(row, IF Len(row.website) > 0
                         THEN WebsiteDomain(row.website, 0) ELSE <<>>)
    IN  IF n > Len(rows) THEN mappings ELSE LoadRows(rows, n + 1, load(rows[n]))

_load_company_mappings(rows) == LoadRows(rows, 1, <<>>)

\* email_from.split('@')[1].lower() if '@' in email_from else None
SenderDomain(email_from) ==
    LET ats == {i \in 1..Len(email_from) : email_from[i] = "@"}
    IN  IF ats = {} THEN NoText
        ELSE LET a == CHOOSE i \in ats : \A j \in ats : i <= j
                 later == {i \in ats : i > a}
                 b == IF later = {} THEN Len(email_from) + 1
                      ELSE CHOOSE i \in later : \A j \in later : i <= j
             IN  Lower(SubSeq(email_from, a + 1, b - 1))

\* the subject/body entity search: first key, in dict order, that occurs in text
NameMatch(company_cache, text) ==
    LET hits == {i \in 1..Len(company_cache) : Contains(text, company_cache[i][1])}
    IN  IF hits = {} THEN None
        ELSE company_cache[CHOOSE i \in hits : \A j \in hits : i <= j][2]

\* match_company with the subject/body search tried before the sender domain
match_company_names_first(company_cache, email_from, subject, body) ==
    LET lookup(sender_domain, named) ==
            IF named # None THEN named
            ELSE IF Len(sender_domain) > 0 /\ DictHas(company_cache, sender_domain)
            THEN DictGet(company_cache, sender_domain)
            ELSE None
    IN  lookup(SenderDomain(email_from),
               NameMatch(company_cache, Lower(subject \o <<" ">> \o body)))

match_company(company_cache, email_from, subject, body) ==
    LET lookup(sender_domain) ==
            IF Len(sender_domain) > 0 /\ DictHas(company_cache, sender_domain)
            THEN DictGet(company_cache, sender_domain)
            ELSE NameMatch(company_cache, Lower(subject \o <<" ">> \o body))
    IN  lookup(SenderDomain(email_from))

(***************************************************************************)
(* PortfolioDataExtractor.extract_amounts                                  *)
(***************************************************************************)

\* half-width of the context window of a match
ContextWindow == 50

\* (?:,[0-9]{3})* from offset j: the offset after the greedy repetition
RECURSIVE CommaGroups(_, _)
CommaGroups(s, j) ==
    IF At(s, j, <<",">>) /\ DigitRun(s, j + 1, 3) = 3 THEN CommaGroups(s, j + 4) ELSE j

\* [0-9]{1,3}(?:,[0-9]{3})*(?:\.[0-9]{2})? at offset i: the end offset, -1 if none
GroupedNumberEnd(s, i) ==
    LET cents(j) == IF At(s, j, <<".">>) /\ DigitRun(s, j + 1, 2) = 2 THEN j + 3 ELSE j
        groups(d) == IF d = 0 THEN 0 - 1 ELSE cents(CommaGroups(s, i + d))
    IN  groups(DigitRun(s, i, 3))

\* [0-9]+(?:\.[0-9]+)? at offset i: the end offset, -1 if none
PlainNumberEnd(s, i) ==
    LET fraction(j, f) == IF f > 0 THEN j + 1 + f ELSE j
        point(j) == fraction(j, IF At(s, j, <<".">>) THEN DigitRun(s, j + 1, Len(s)) ELSE 0)
        whole(d) == IF d = 0 THEN 0 - 1 ELSE point(i + d)
    IN  whole(DigitRun(s, i, Len(s)))

\* (?:USD|dollars?) at offset k: the end offset, -1 if none
CurrencyWordEnd(s, k) ==
    IF At(s, k, <<"U", "S", "D">>) THEN k + 3
    ELSE IF At(s, k, <<"d", "o", "l", "l", "a", "r">>)
    THEN (IF At(s, k + 6, <<"s">>) THEN k + 7 ELSE k + 6)
    ELSE 0 - 1

NoMatch == [ok |-> FALSE, start |-> 0, g1s |-> 0, g1e |-> 0, end |-> 0]

\* AMOUNT_PATTERNS[p - 1] tried at offset i (re.match at i)
AmountMatchAt(p, s, i) ==
    LET p1(e) == IF e < 0 THEN NoMatch
                 ELSE [ok |-> TRUE, start |-> i, g1s |-> i + 1, g1e |-> e, end |-> e]
        p2w(e, w) == IF w < 0 THEN NoMatch
                     ELSE [ok |-> TRUE, start |-> i, g1s |-> i, g1e |-> e, end |-> w]
        p2(e) == p2w(e, IF e < 0 THEN 0 - 1 ELSE CurrencyWordEnd(s, SkipSpace(s, e)))
        p3w(e, w) == [ok |-> TRUE, start |-> i, g1s |-> i, g1e |-> e,
                      end |-> IF w < 0 THEN e + 1 ELSE w]
        p3(e) == IF e >= 0 /\ e < Len(s) /\ s[e + 1] \in {"k", "K", "m", "M", "b", "B"}
                 THEN p3w(e, CurrencyWordEnd(s, SkipSpace(s, e + 1)))
                 ELSE NoMatch
    IN  CASE p = 1 -> p1(IF At(s, i, <<"$">>) THEN GroupedNumberEnd(s, i + 1) ELSE 0 - 1)
          [] p = 2 -> p2(GroupedNumberEnd(s, i))
          [] p = 3 -> p3(PlainNumberEnd(s, i))

\* re.finditer(AMOUNT_PATTERNS[p - 1], text) from offset i: the leftmost match
\* at or after i, then the matches after its end
RECURSIVE AmountFindIter(_, _, _)
AmountFindIter(p, s, i) ==
    LET found(m) == <<m>> \o AmountFindIter(p, s, m.end)
        leftmost(hits) ==
            IF hits = {} THEN <<>>
            ELSE found(AmountMatchAt(p, s, CHOOSE x \in hits : \A y \in hits : x <= y))
    IN  leftmost({j \in i..(Len(s) - 1) : AmountMatchAt(p, s, j).ok})

\* the Decimal of one match: separators stripped, k/M/B applied when the last
\* character of the whole match is one of them
MatchAmount(text, m) ==
    LET multiplied(amount, last) ==
            IF last = "k" THEN Scale(amount, 3)
            ELSE IF last = "m" THEN Scale(amount, 6)
            ELSE IF last = "b" THEN Scale(amount, 9)
            ELSE amount
    IN  multiplied(ParseDecimal(RemoveChar(Slice(text, m.g1s, m.g1e), ",")),
                   LowerChar(text[m.end]))

Min(a, b) == IF a < b THEN a ELSE b
Max(a, b) == IF a > b THEN a ELSE b

\* the confidence of one match with the investment test made last
MatchConfidenceInvestmentLast(text, m) ==
    LET investment(context) ==
            \/ Contains(context, <<"i", "n", "v", "e", "s", "t", "e", "d">>)
            \/ Contains(context, <<"i", "n", "v", "e", "s", "t", "m", "e", "n", "t">>)
            \/ Contains(context, <<"a", "m", "o", "u", "n", "t">>)
        valuation(context) ==
            \/ Contains(context, <<"p", "r", "e", "-", "m", "o", "n", "e", "y">>)
            \/ Contains(context, <<"p", "o", "s", "t", "-", "m", "o", "n", "e", "y">>)
            \/ Contains(context, <<"v", "a", "l", "u", "a", "t", "i", "o", "n">>)
        confidence(context) ==
            IF investment(context) THEN 95 ELSE IF valuation(context) THEN 85 ELSE 90
    IN  confidence(Lower(Slice(text, Max(0, m.start - ContextWindow),
                               Min(Len(text), m.end + ContextWindow))))

\* the confidence of one match from the words around it
MatchConfidence(text, m) ==
    LET investment(context) ==
            \/ Contains(context, <<"i", "n", "v", "e", "s", "t", "e", "d">>)
            \/ Contains(context, <<"i", "n", "v", "e", "s", "t", "m", "e", "n", "t">>)
            \/ Contains(context, <<"a", "m", "o", "u", "n", "t">>)
        valuation(context) ==
            \/ Contains(context, <<"p", "r", "e", "-", "m", "o", "n", "e", "y">>)
            \/ Contains(context, <<"p", "o", "s", "t", "-", "m", "o", "n", "e", "y">>)
            \/ Contains(context, <<"v", "a", "l", "u", "a", "t", "i", "o", "n">>)
        confidence(context) ==
            IF valuation(context) THEN 85 ELSE IF investment(context) THEN 95 ELSE 90
    IN  confidence(Lower(Slice(text, Max(0, m.start - ContextWindow),
                               Min(Len(text), m.end + ContextWindow))))

AmountsOfPattern(p, text) ==
    LET amounts(ms) ==
            [k \in 1..Len(ms) |->
                [amount |-> MatchAmount(text, ms[k]),
                 confidence |-> MatchConfidence(text, ms[k])]]
    IN  amounts(AmountFindIter(p, text, 0))

\* the sequence of (amount, confidence), pattern by pattern
extract_amounts(text) ==
    AmountsOfPattern(1, text) \o AmountsOfPattern(2, text) \o AmountsOfPattern(3, text)

(***************************************************************************)
(* PortfolioDataExtractor.extract_ownership                                *)
(***************************************************************************)

\* ([0-9]+(?:\.[0-9]+)?)\s*% at offset i: <<end of group 1, offset after %>>,
\* <<-1, -1>> if none
PercentAt(s, i) ==
    LET sign(e, j) == IF e >= 0 /\ At(s, j, <<"%">>) THEN <<e, j + 1>> ELSE <<0 - 1, 0 - 1>>
        number(e) == sign(e, IF e < 0 THEN 0 - 1 ELSE SkipSpace(s, e))
    IN  number(PlainNumberEnd(s, i))

\* patterns[p - 1] of extract_ownership tried at offset i: the span of group 1
OwnershipMatchAt(p, s, i) ==
    LET fail == [ok |-> FALSE, g1s |-> 0, g1e |-> 0]
        span(g, pc) == IF pc[1] >= 0 THEN [ok |-> TRUE, g1s |-> g, g1e |-> pc[1]] ELSE fail
        \* ([0-9]+(?:\.[0-9]+)?)\s*%\s*(?:ownership|equity|stake)
        p1word(pc, k) ==
            IF /\ pc[1] >= 0
               /\ \/ AtI(s, k, <<"o", "w", "n", "e", "r", "s", "h", "i", "p">>)
                  \/ AtI(s, k, <<"e", "q", "u", "i", "t", "y">>)
                  \/ AtI(s, k, <<"s", "t", "a", "k", "e">>)
            THEN [ok |-> TRUE, g1s |-> i, g1e |-> pc[1]]
            ELSE fail
        p1(pc) == p1word(pc, IF pc[1] < 0 THEN 0 - 1 ELSE SkipSpace(s, pc[2]))
        \* (?:owns?|holding?)\s*([0-9]+(?:\.[0-9]+)?)\s*%
        p2n(n) == span(n, IF n < 0 THEN <<0 - 1, 0 - 1>> ELSE PercentAt(s, n))
        p2(w) == p2n(IF w < 0 THEN 0 - 1 ELSE SkipSpace(s, w))
        \* fully[\s-]diluted\s*(?:ownership|basis)?\s*(?:of\s*)?([0-9]+(?:\.[0-9]+)?)\s*%
        head == /\ AtI(s, i, <<"f", "u", "l", "l", "y">>)
                /\ (IsSpaceAt(s, i + 5) \/ At(s, i + 5, <<"-">>))
                /\ AtI(s, i + 6, <<"d", "i", "l", "u", "t", "e", "d">>)
        p3d(d) == span(d, IF head THEN PercentAt(s, d) ELSE <<0 - 1, 0 - 1>>)
        p3c(c) == p3d(IF AtI(s, c, <<"o", "f">>) THEN SkipSpace(s, c + 2) ELSE c)
        p3a(a) == p3c(SkipSpace(s,
                     IF AtI(s, a, <<"o", "w", "n", "e", "r", "s", "h", "i", "p">>) THEN a + 9
                     ELSE IF AtI(s, a, <<"b", "a", "s", "i", "s">>) THEN a + 5 ELSE a))
    IN  CASE p = 1 -> p1(PercentAt(s, i))
          [] p = 2 ->
               p2(IF AtI(s, i, <<"o", "w", "n">>)
                  THEN (IF AtI(s, i + 3, <<"s">>) THEN i + 4 ELSE i + 3)
                  ELSE IF AtI(s, i, <<"h", "o", "l", "d", "i", "n">>)
                  THEN (IF AtI(s, i + 6, <<"g">>) THEN i + 7 ELSE i + 6)
                  ELSE 0 - 1)
          [] p = 3 -> p3a(SkipSpace(s, i + 13))

\* re.search(patterns[p - 1], text, re.IGNORECASE): the leftmost match
OwnershipSearch(p, s) ==
    LET leftmost(hits) ==
            IF hits = {} THEN [ok |-> FALSE, g1s |-> 0, g1e |-> 0]
            ELSE OwnershipMatchAt(p, s, CHOOSE i \in hits : \A j \in hits : i <= j)
    IN  leftmost({i \in 0..(Len(s) - 1) : OwnershipMatchAt(p, s, i).ok})

\* [found, fully_diluted_pct, confidence]; found = FALSE is the None result
extract_ownership(text) ==
    LET result(m) ==
            IF m.ok
            THEN [found |-> TRUE,
                  fully_diluted_pct |-> ParseDecimal(Slice(text, m.g1s, m.g1e)),
                  confidence |-> 85]
            ELSE [found |-> FALSE, fully_diluted_pct |-> [coef |-> 0, exp |-> 0],
                  confidence |-> 0]
        first(m1, m2, m3) == result(IF m1.ok THEN m1 ELSE IF m2.ok THEN m2 ELSE m3)
    IN  first(OwnershipSearch(1, text), OwnershipSearch(2, text), OwnershipSearch(3, text))

(***************************************************************************)
(* PortfolioDataExtractor.extract_dates                                    *)
(*                                                                         *)
(* A datetime is [y, m, d, t]: calendar date and seconds since midnight.   *)
(***************************************************************************)

\* the absent entry of the dates dict
NoDate == [y |-> 0, m |-> 0, d |-> 0, t |-> 0]

\* the calendar day on which the pipeline runs
Today == [y |-> 2025, m |-> 2, d |-> 1]

\* datetime.now() at clock reading t
Now(t) == [y |-> Today.y, m |-> Today.m, d |-> Today.d, t |-> t]

IsLeap(y) == (y % 4 = 0 /\ y % 100 # 0) \/ y % 400 = 0

DaysInMonth(y, m) ==
    IF m = 2 THEN (IF IsLeap(y) THEN 29 ELSE 28)
    ELSE IF m \in {4, 6, 9, 11} THEN 30 ELSE 31

\* dateutil's month names: the month number, 0 for any other word
MonthOf(w) ==
    CASE w = <<"j", "a", "n", "u", "a", "r", "y">> -> 1
      [] w = <<"f", "e", "b", "r", "u", "a", "r", "y">> -> 2
      [] w = <<"m", "a", "r", "c", "h">> -> 3
      [] w = <<"a", "p", "r", "i", "l">> -> 4
      [] w = <<"m", "a", "y">> -> 5
      [] w = <<"j", "u", "n", "e">> -> 6
      [] w = <<"j", "u", "l", "y">> -> 7
      [] w = <<"a", "u", "g", "u", "s", "t">> -> 8
      [] w = <<"s", "e", "p", "t", "e", "m", "b", "e", "r">> -> 9
      [] w = <<"o", "c", "t", "o", "b", "e", "r">> -> 10
      [] w = <<"n", "o", "v", "e", "m", "b", "e", "r">> -> 11
      [] w = <<"d", "e", "c", "e", "m", "b", "e", "r">> -> 12
      [] w = <<"j", "a", "n">> -> 1
      [] w = <<"f", "e", "b">> -> 2
      [] w = <<"m", "a", "r">> -> 3
      [] w = <<"a", "p", "r">> -> 4
      [] w = <<"j", "u", "n">> -> 6
      [] w = <<"j", "u", "l">> -> 7
      [] w = <<"a", "u", "g">> -> 8
      [] w = <<"s", "e", "p">> -> 9
      [] w = <<"s", "e", "p", "t">> -> 9
      [] w = <<"o", "c", "t">> -> 10
      [] w = <<"n", "o", "v">> -> 11
      [] w = <<"d", "e", "c">> -> 12
      [] OTHER -> 0

\* DATE_KEYWORDS[date_type], lower case (the pattern is compiled re.IGNORECASE)
DATE_KEYWORDS(date_type) ==
    CASE date_type = "close_date" ->
           << <<"c", "l", "o", "s", "e", "d">>,
              <<"c", "l", "o", "s", "i", "n", "g", " ", "d", "a", "t", "e">>,
              <<"c", "l", "o", "s", "e", " ", "d", "a", "t", "e">>,
              <<"c", "o", "m", "p", "l", "e", "t", "e", "d", " ", "o", "n">> >>
      [] date_type = "as_of_date" ->
           << <<"a", "s", " ", "o", "f">>,
              <<"a", "s", " ", "a", "t">>,
              <<"o", "w", "n", "e", "r", "s", "h", "i", "p", " ", "a", "s", " ", "o", "f">>,
              <<"c", "a", "p", " ", "t", "a", "b", "l", "e", " ", "d", "a", "t", "e", "d">> >>
      [] date_type = "period" ->
           << <<"f", "o", "r", " ", "t", "h", "e", " ", "p", "e", "r", "i", "o", "d">>,
              <<"q", "u", "a", "r", "t", "e", "r", " ", "e", "n", "d", "i", "n", "g">>,
              <<"m", "o", "n", "t", "h", " ", "e", "n", "d", "i", "n", "g">>,
              <<"y", "t", "d", " ", "t", "h", "r", "o", "u", "g", "h">> >>

\* [:\s]* from offset i
RECURSIVE SkipColonSpace(_, _)
SkipColonSpace(s, i) ==
    IF IsSpaceAt(s, i) \/ At(s, i, <<":">>) THEN SkipColonSpace(s, i + 1) ELSE i

\* [A-Za-z]+ from offset i: the length of the greedy run
RECURSIVE LetterRun(_, _)
LetterRun(s, i) ==
    IF i < Len(s) /\ LowerChar(s[i + 1]) \in
         {"a", "b", "c", "d", "e", "f", "g", "h", "i", "j", "k", "l", "m",
          "n", "o", "p", "q", "r", "s", "t", "u", "v", "w", "x", "y", "z"}
    THEN 1 + LetterRun(s, i + 1) ELSE 0

\* [A-Za-z]+ \d{1,2},? \d{4} at offset i: the end offset, -1 if none
NamedDateEnd(s, i) ==
    LET year(b) == IF At(s, b, <<" ">>) /\ DigitRun(s, b + 1, 4) = 4 THEN b + 5 ELSE 0 - 1
        day(a, dd) ==
            IF dd > 0 THEN year(IF At(s, a + dd, <<",">>) THEN a + dd + 1 ELSE a + dd)
            ELSE 0 - 1
        word(n) == IF n > 0 /\ At(s, i + n, <<" ">>)
                   THEN day(i + n + 1, DigitRun(s, i + n + 1, 2)) ELSE 0 - 1
    IN  word(LetterRun(s, i))

\* \d{1,2}[/-]\d{1,2}[/-]\d{2,4} at offset i: the end offset, -1 if none
NumericDateEnd(s, i) ==
    LET sep(k) == At(s, k, <<"/">>) \/ At(s, k, <<"-">>)
        third(b, d3) == IF d3 >= 2 THEN b + d3 ELSE 0 - 1
        second(a, d2) == IF d2 > 0 /\ sep(a + d2)
                         THEN third(a + d2 + 1, DigitRun(s, a + d2 + 1, 4)) ELSE 0 - 1
        first(d1) == IF d1 > 0 /\ sep(i + d1)
                     THEN second(i + d1 + 1, DigitRun(s, i + d1 + 1, 2)) ELSE 0 - 1
    IN  first(DigitRun(s, i, 2))

\* the pattern of `keyword` tried at offset i
DateMatchAt(keyword, s, i) ==
    LET fail == [ok |-> FALSE, g1s |-> 0, g1e |-> 0]
        span(g, e) == IF e >= 0 THEN [ok |-> TRUE, g1s |-> g, g1e |-> e] ELSE fail
        date(g, e1) == span(g, IF e1 >= 0 THEN e1 ELSE NumericDateEnd(s, g))
        group(g) == date(g, NamedDateEnd(s, g))
    IN  IF AtI(s, i, keyword) THEN group(SkipColonSpace(s, i + Len(keyword))) ELSE fail

\* dateutil's two-digit year, century taken from the current year
ConvertYear(yy) ==
    LET century(year) == IF year >= Today.y + 50 THEN year - 100
                         ELSE IF year < Today.y - 50 THEN year + 100 ELSE year
    IN  century(yy + (Today.y \div 100) * 100)

ValidDate(y, m, d) == y >= 1 /\ m \in 1..12 /\ d >= 1 /\ d <= DaysInMonth(y, m)

\* date_parser.parse of a matched group: [ok, date]; ok = FALSE is the raised
\* exception.  Modelled for the two forms the pattern admits.
DateutilParse(g) ==
    LET date(year, month, day) ==
            IF month > 0 /\ ValidDate(year, month, day)
            THEN [ok |-> TRUE, date |-> [y |-> year, m |-> month, d |-> day, t |-> 0]]
            ELSE [ok |-> FALSE, date |-> NoDate]
        \* 'Month D, YYYY'
        named(n, dd) == date(DigitsToInt(Slice(g, Len(g) - 4, Len(g))),
                             MonthOf(Lower(Slice(g, 0, n))),
                             DigitsToInt(Slice(g, n + 1, n + 1 + dd)))
        \* resolve_ymd: year first when the first number exceeds 31, day first
        \* when it exceeds 12, month first otherwise; d3 digits in the third
        ymd(a, b, c, d3) ==
            date(IF d3 > 2 THEN (IF a > 31 THEN a ELSE c)
                 ELSE ConvertYear(IF a > 31 THEN a ELSE c),
                 IF a > 31 THEN b ELSE IF a > 12 THEN b ELSE a,
                 IF a > 31 THEN c ELSE IF a > 12 THEN a ELSE b)
        numeric(d1, d2) == ymd(DigitsToInt(Slice(g, 0, d1)),
                               DigitsToInt(Slice(g, d1 + 1, d1 + 1 + d2)),
                               DigitsToInt(Slice(g, d1 + d2 + 2, Len(g))),
                               Len(g) - (d1 + d2 + 2))
        second(d1) == numeric(d1, DigitRun(g, d1 + 1, 2))
        word(n) == IF n > 0 THEN named(n, DigitRun(g, n + 1, 2))
                   ELSE second(DigitRun(g, 0, 2))
    IN  word(LetterRun(g, 0))

\* the finditer loop of one keyword from offset i: the first match that
\* parses, NoDate if none does
RECURSIVE KeywordDate(_, _, _)
KeywordDate(keyword, s, i) ==
    LET parsed(m, p) == IF p.ok THEN p.date ELSE KeywordDate(keyword, s, m.g1e)
        found(m) == parsed(m, DateutilParse(Slice(s, m.g1s, m.g1e)))
        leftmost(hits) ==
            IF hits = {} THEN NoDate
            ELSE found(DateMatchAt(keyword, s, CHOOSE x \in hits : \A y \in hits : x <= y))
    IN  leftmost({j \in i..(Len(s) - 1) : DateMatchAt(keyword, s, j).ok})

\* the keyword loop of one date_type: the first keyword with a parsed date
RECURSIVE TypeDate(_, _, _)
TypeDate(keywords, k, s) ==
    LET first(found) == IF found # NoDate THEN found ELSE TypeDate(keywords, k + 1, s)
    IN  IF k > Len(keywords) THEN NoDate ELSE first(KeywordDate(keywords[k], s, 0))

\* the dates dict, an absent key being NoDate
extract_dates(text) ==
    [close_date |-> TypeDate(DATE_KEYWORDS("close_date"), 1, text),
     as_of_date |-> TypeDate(DATE_KEYWORDS("as_of_date"), 1, text),
     period |-> TypeDate(DATE_KEYWORDS("period"), 1, text)]

(***************************************************************************)
(* PortfolioDataExtractor.extract_metrics                                  *)
(***************************************************************************)

\* a key that the metrics dict does not hold
Absent == <<"<absent>">>

\* str(n) for n >= 0
RECURSIVE IntToDigits(_)
IntToDigits(n) ==
    LET digit == <<"0", "1", "2", "3", "4", "5", "6", "7", "8", "9">>
    IN  IF n < 10 THEN <<digit[n + 1]>>
        ELSE IntToDigits(n \div 10) \o <<digit[(n % 10) + 1]>>

RECURSIVE Zeros(_)
Zeros(n) == IF n <= 0 THEN <<>> ELSE <<"0">> \o Zeros(n - 1)

\* str(float) of the value of Decimal d (the shortest repr; d below 10^16)
FloatStr(d) ==
    LET repr(ds) ==
            IF d.exp >= 0 THEN ds \o Zeros(d.exp) \o <<".", "0">>
            ELSE IF Len(ds) > 0 - d.exp
            THEN SubSeq(ds, 1, Len(ds) + d.exp) \o <<".">>
                 \o SubSeq(ds, Len(ds) + d.exp + 1, Len(ds))
            ELSE <<"0", ".">> \o Zeros((0 - d.exp) - Len(ds)) \o ds
    IN  repr(IntToDigits(d.coef))

\* [0-9,]+ from offset i: the length of the greedy run
RECURSIVE DigitCommaRun(_, _)
DigitCommaRun(s, i) ==
    IF IsDigitAt(s, i) \/ At(s, i, <<",">>) THEN 1 + DigitCommaRun(s, i + 1) ELSE 0

\* \$?([0-9,]+(?:\.[0-9]+)?[kKmM]?) at offset i: the span of group 1
MoneyGroupAt(s, i) ==
    LET span(g, n, k) ==
            IF n > 0
            THEN [ok |-> TRUE, g1s |-> g,
                  g1e |-> IF k < Len(s) /\ s[k + 1] \in {"k", "K", "m", "M"}
                          THEN k + 1 ELSE k]
            ELSE [ok |-> FALSE, g1s |-> 0, g1e |-> 0]
        fraction(g, n, j, f) == span(g, n, IF f > 0 THEN j + 1 + f ELSE j)
        digits(g, n) ==
            fraction(g, n, g + n,
                     IF At(s, g + n, <<".">>) THEN DigitRun(s, g + n + 1, Len(s)) ELSE 0)
        group(g) == digits(g, DigitCommaRun(s, g))
    IN  group(IF At(s, i, <<"$">>) THEN i + 1 ELSE i)

\* an optional literal word at offset i (re.IGNORECASE): the offset after it
Opt(s, i, w) == IF AtI(s, i, w) THEN i + Len(w) ELSE i

\* metric_patterns[metric] tried at offset i: the span of group 1
MetricMatchAt(metric, s, i) ==
    LET fail == [ok |-> FALSE, g1s |-> 0, g1e |-> 0]
        digits(g, n) == IF n > 0 THEN [ok |-> TRUE, g1s |-> g, g1e |-> g + n] ELSE fail
        number(g) == digits(g, DigitRun(s, g, Len(s)))
        months(m) == IF m.ok /\ AtI(s, SkipSpace(s, m.g1e), <<"m", "o", "n", "t", "h">>)
                     THEN m ELSE fail
        count(w) == IF w < 0 THEN fail ELSE number(SkipColonSpace(s, w))
        percent(g, pc) == IF pc[1] >= 0 THEN [ok |-> TRUE, g1s |-> g, g1e |-> pc[1]] ELSE fail
        rate(g) == percent(g, PercentAt(s, g))
    IN  CASE metric = "ARR" ->
               IF AtI(s, i, <<"a", "r", "r">>)
               THEN MoneyGroupAt(s, SkipColonSpace(s, i + 3)) ELSE fail
          [] metric = "revenue" ->
               IF AtI(s, i, <<"r", "e", "v", "e", "n", "u", "e">>)
               THEN MoneyGroupAt(s, SkipColonSpace(s, i + 7)) ELSE fail
          [] metric = "runway_months" ->
               months(IF AtI(s, i, <<"r", "u", "n", "w", "a", "y">>)
                      THEN number(SkipColonSpace(s, i + 6)) ELSE fail)
          [] metric = "headcount" ->
               count(IF AtI(s, i, <<"h", "e", "a", "d", "c", "o", "u", "n", "t">>)
                     THEN i + 9
                     ELSE IF AtI(s, i, <<"e", "m", "p", "l", "o", "y", "e", "e">>)
                     THEN Opt(s, i + 8, <<"s">>)
                     ELSE IF AtI(s, i, <<"t", "e", "a", "m", " ", "s", "i", "z", "e">>)
                     THEN i + 9 ELSE 0 - 1)
          [] metric = "burn_rate" ->
               IF AtI(s, i, <<"b", "u", "r", "n">>)
               THEN MoneyGroupAt(s, SkipColonSpace(s,
                        Opt(s, SkipSpace(s, i + 4), <<"r", "a", "t", "e">>)))
               ELSE fail
          [] metric = "cash" ->
               IF AtI(s, i, <<"c", "a", "s", "h">>)
               THEN MoneyGroupAt(s, SkipColonSpace(s,
                        Opt(s, SkipSpace(s, i + 4), <<"b", "a", "l", "a", "n", "c", "e">>)))
               ELSE fail
          [] metric = "churn" ->
               IF AtI(s, i, <<"c", "h", "u", "r", "n">>)
               THEN rate(SkipColonSpace(s, i + 5)) ELSE fail

\* re.search(metric_patterns[metric], text, re.IGNORECASE): group 1 of the
\* leftmost match, Absent when there is none
MetricSearch(metric, s) ==
    LET group(m) == Slice(s, m.g1s, m.g1e)
        leftmost(hits) ==
            IF hits = {} THEN Absent
            ELSE group(MetricMatchAt(metric, s, CHOOSE i \in hits : \A j \in hits : i <= j))
    IN  leftmost({i \in 0..(Len(s) - 1) : MetricMatchAt(metric, s, i).ok})

\* float(value[:-1].replace(',', '')) raises ValueError
MetricRaises(value) ==
    /\ value # Absent
    /\ LowerChar(value[Len(value)]) \in {"k", "m"}
    /\ RemoveChar(SubSeq(value, 1, Len(value) - 1), ",") = <<>>

\* the normalisation of one matched value
MetricValue(value) ==
    LET multiplied(last, number) ==
            IF last = "k" THEN FloatStr(Scale(ParseDecimal(number), 3))
            ELSE IF last = "m" THEN FloatStr(Scale(ParseDecimal(number), 6))
            ELSE RemoveChar(value, ",")
    IN  IF value = Absent THEN Absent
        ELSE multiplied(LowerChar(value[Len(value)]),
                        RemoveChar(SubSeq(value, 1, Len(value) - 1), ","))

MetricNames ==
    <<"ARR", "revenue", "runway_months", "headcount", "burn_rate", "cash", "churn">>

\* [raised, metrics]: metrics maps each metric name to its value or Absent
extract_metrics(text) ==
    LET result(found, raised) ==
            [raised |-> raised,
             metrics |-> IF raised THEN <<>>
                         ELSE [k \in 1..Len(MetricNames) |-> MetricValue(found[k])]]
        normalise(found) ==
            result(found, \E k \in 1..Len(MetricNames) : MetricRaises(found[k]))
    IN  normalise([k \in 1..Len(MetricNames) |-> MetricSearch(MetricNames[k], text)])

(***************************************************************************)
(* PortfolioDataExtractor.extract_from_email and its category extractors   *)
(***************************************************************************)

\* characters of the text kept as qualitative_summary, and as comm summary
SummaryLimit == 500
CommSummaryLimit == 1000

\* days of the default report period
DefaultPeriodDays == 30

\* the n-th datetime.now() of an extraction that starts at clock reading
\* `now`: successive calls return successive readings
NowCall(now, n) == Now(now * 100 + n)

\* date_parser.parse(received_date) for Graph's receivedDateTime,
\* 'YYYY-MM-DDTHH:MM:SSZ'; ok = FALSE is the ParserError raised for ''
ParseReceived(s) ==
    LET num(a, b) == DigitsToInt(Slice(s, a, b))
        shaped == /\ Len(s) = 20
                  /\ \A i \in {0, 1, 2, 3, 5, 6, 8, 9, 11, 12, 14, 15, 17, 18} :
                        IsDigitAt(s, i)
                  /\ s[5] = "-" /\ s[8] = "-" /\ s[11] = "T"
                  /\ s[14] = ":" /\ s[17] = ":" /\ s[20] = "Z"
    IN  IF shaped /\ ValidDate(num(0, 4), num(5, 7), num(8, 10))
           /\ num(11, 13) < 24 /\ num(14, 16) < 60 /\ num(17, 19) < 60
        THEN [ok |-> TRUE,
              date |-> [y |-> num(0, 4), m |-> num(5, 7), d |-> num(8, 10),
                        t |-> num(11, 13) * 3600 + num(14, 16) * 60 + num(17, 19)]]
        ELSE [ok |-> FALSE, date |-> NoDate]

\* dt - timedelta(days = n)
RECURSIVE MinusDays(_, _)
MinusDays(dt, n) ==
    IF n = 0 THEN dt
    ELSE IF dt.d > n THEN [dt EXCEPT !.d = dt.d - n]
    ELSE LET py == IF dt.m = 1 THEN dt.y - 1 ELSE dt.y
             pm == IF dt.m = 1 THEN 12 ELSE dt.m - 1
         IN  MinusDays([dt EXCEPT !.y = py, !.m = pm, !.d = DaysInMonth(py, pm)],
                       n - dt.d)

\* re.search(r'Q([1-4])\s*(\d{4})', text): [ok, quarter, year] of the leftmost
QuarterSearch(s) ==
    LET yearAt(i) == SkipSpace(s, i + 2)
        ok(i) == /\ At(s, i, <<"Q">>)
                 /\ i + 1 < Len(s) /\ s[i + 2] \in {"1", "2", "3", "4"}
                 /\ DigitRun(s, yearAt(i), 4) = 4
        groups(i, y) == [ok |-> TRUE, quarter |-> DigitVal(s[i + 2]),
                         year |-> DigitsToInt(Slice(s, y, y + 4))]
        match(i) == groups(i, yearAt(i))
        leftmost(hits) ==
            IF hits = {} THEN [ok |-> FALSE, quarter |-> 0, year |-> 0]
            ELSE match(CHOOSE x \in hits : \A y \in hits : x <= y)
    IN  leftmost({i \in 0..(Len(s) - 1) : ok(i)})

\* period_end.strftime("%Y-%m")
YearMonth(dt) ==
    IntToDigits(dt.y) \o <<"-">>
    \o (IF dt.m < 10 THEN <<"0">> ELSE <<>>) \o IntToDigits(dt.m)

Prefix(s, n) == SubSeq(s, 1, Min(Len(s), n))

\* [raised, updates]: the Update fact appended for an UPDATE message
_extract_update(text, received_date) ==
    LET report_period(quarter_match, period_end) ==
            IF quarter_match.ok
            THEN IntToDigits(quarter_match.year) \o <<"-", "Q">>
                 \o IntToDigits(quarter_match.quarter)
            ELSE YearMonth(period_end)
        update(extracted, period_end) ==
            [period_start |-> MinusDays(period_end, DefaultPeriodDays),
             period_end |-> period_end,
             report_period |-> report_period(QuarterSearch(text), period_end),
             metrics |-> extracted.metrics,
             qualitative_summary |-> Prefix(text, SummaryLimit),
             confidence |-> 80]
        extract(extracted, dates, received) ==
            IF extracted.raised \/ ~received.ok THEN [raised |-> TRUE, updates |-> <<>>]
            ELSE [raised |-> FALSE,
                  updates |-> << update(extracted,
                                        IF dates.period # NoDate THEN dates.period
                                        ELSE received.date) >>]
    IN  extract(extract_metrics(text), extract_dates(text), ParseReceived(received_date))

\* [raised, comm]: the facts['comm'] list set for a NOTEBOOKLM message
_extract_notebook_lm(text, now) ==
    LET extract(extracted) ==
            IF extracted.raised THEN [raised |-> TRUE, comm |-> <<>>]
            ELSE [raised |-> FALSE,
                  comm |-> << [source |-> "notebook_lm",
                               occurred_at |-> NowCall(now, 0),
                               summary |-> Prefix(text, CommSummaryLimit),
                               extracted_fields |-> extracted.metrics,
                               confidence |-> 70] >>]
    IN  extract(extract_metrics(text))

\* the Ownership facts appended for a CAPTABLE message
_extract_cap_table(text, now) ==
    LET extract(ownership) ==
            IF ownership.found
            THEN << [as_of_date |-> NowCall(now, 0),
                     fully_diluted_pct |-> ownership.fully_diluted_pct,
                     confidence |-> ownership.confidence] >>
            ELSE <<>>
    IN  extract(extract_ownership(text))

\* the confidences of the facts of one list
Confidences(facts) == [k \in 1..Len(facts) |-> facts[k].confidence]

RECURSIVE SumSeq(_)
SumSeq(q) == IF Len(q) = 0 THEN 0 ELSE Head(q) + SumSeq(Tail(q))

\* the overall confidence as the sum of the confidences, not their mean
OverallConfidenceSum(confidences) ==
    IF Len(confidences) > 0
    THEN [num |-> SumSeq(confidences), den |-> 1]
    ELSE [num |-> 50, den |-> 1]

\* sum(confidences) / len(confidences) if confidences else 0.5, as the
\* fraction num / den of hundredths
OverallConfidence(confidences) ==
    IF Len(confidences) > 0
    THEN [num |-> SumSeq(confidences), den |-> Len(confidences)]
    ELSE [num |-> 50, den |-> 1]

\* extract_from_email recording a Cashflow per amount whatever the text says
extract_from_email_any_text(email_data, now) ==
    LET result(update, notebook, ownerships, cashflows) ==
            [raised |-> update.raised \/ notebook.raised,
             result |->
                [company_id |-> None,
                 source_ptr |-> [source_type |-> "email", source_id |-> email_data.id],
                 facts |-> [rounds |-> <<>>,
                            ownerships |-> ownerships,
                            cashflows |-> cashflows,
                            updates |-> update.updates,
                            contacts |-> <<>>,
                            documents |-> <<>>,
                            comm |-> notebook.comm],
                 confidence_overall |->
                    OverallConfidence(Confidences(ownerships) \o Confidences(cashflows)
                                      \o Confidences(update.updates)
                                      \o Confidences(notebook.comm)),
                 anomalies |-> <<>>,
                 assumptions |-> <<"currency defaulted to USD">>]]
        \* the general extraction, whatever the category
        general(update, notebook, captable, amounts, dates, ownership, invested) ==
            result(update, notebook,
                   captable \o
                   (IF ownership.found
                    THEN << [as_of_date |-> IF dates.as_of_date # NoDate
                                            THEN dates.as_of_date
                                            ELSE NowCall(now, Len(amounts) + 1),
                             fully_diluted_pct |-> ownership.fully_diluted_pct,
                             confidence |-> ownership.confidence] >>
                    ELSE <<>>),
                   IF invested
                   THEN [k \in 1..Len(amounts) |->
                           [date |-> IF dates.close_date # NoDate THEN dates.close_date
                                     ELSE NowCall(now, k),
                            kind |-> "Investment",
                            amount |-> amounts[k].amount,
                            confidence |-> amounts[k].confidence]]
                   ELSE <<>>)
        \* the extractor of the category, then the general extraction
        category(email_type, full_text) ==
            general(IF email_type = "UPDATE"
                    THEN _extract_update(full_text, email_data.receivedDateTime)
                    ELSE [raised |-> FALSE, updates |-> <<>>],
                    IF email_type = "NOTEBOOKLM"
                    THEN _extract_notebook_lm(full_text, now)
                    ELSE [raised |-> FALSE, comm |-> <<>>],
                    IF email_type = "CAPTABLE"
                    THEN _extract_cap_table(full_text, now) ELSE <<>>,
                    extract_amounts(full_text),
                    extract_dates(full_text),
                    extract_ownership(full_text),
                    TRUE)
    IN  category(_classify_email(email_data.subject, email_data.body),
                 email_data.subject \o <<"\n">> \o email_data.body)

\* [raised, result]: the envelope extracted from email_data when the clock
\* reads `now`; raised = TRUE when a category extractor raises
extract_from_email(email_data, now) ==
    LET result(update, notebook, ownerships, cashflows) ==
            [raised |-> update.raised \/ notebook.raised,
             result |->
                [company_id |-> None,
                 source_ptr |-> [source_type |-> "email", source_id |-> email_data.id],
                 facts |-> [rounds |-> <<>>,
                            ownerships |-> ownerships,
                            cashflows |-> cashflows,
                            updates |-> update.updates,
                            contacts |-> <<>>,
                            documents |-> <<>>,
                            comm |-> notebook.comm],
                 confidence_overall |->
                    OverallConfidence(Confidences(ownerships) \o Confidences(cashflows)
                                      \o Confidences(update.updates)
                                      \o Confidences(notebook.comm)),
                 anomalies |-> <<>>,
                 assumptions |-> <<"currency defaulted to USD">>]]
        \* the general extraction, whatever the category
        general(update, notebook, captable, amounts, dates, ownership, invested) ==
            result(update, notebook,
                   captable \o
                   (IF ownership.found
                    THEN << [as_of_date |-> IF dates.as_of_date # NoDate
                                            THEN dates.as_of_date
                                            ELSE NowCall(now, Len(amounts) + 1),
                             fully_diluted_pct |-> ownership.fully_diluted_pct,
                             confidence |-> ownership.confidence] >>
                    ELSE <<>>),
                   IF invested
                   THEN [k \in 1..Len(amounts) |->
                           [date |-> IF dates.close_date # NoDate THEN dates.close_date
                                     ELSE NowCall(now, k),
                            kind |-> "Investment",
                            amount |-> amounts[k].amount,
                            confidence |-> amounts[k].confidence]]
                   ELSE <<>>)
        \* the extractor of the category, then the general extraction
        category(email_type, full_text) ==
            general(IF email_type = "UPDATE"
                    THEN _extract_update(full_text, email_data.receivedDateTime)
                    ELSE [raised |-> FALSE, updates |-> <<>>],
                    IF email_type = "NOTEBOOKLM"
                    THEN _extract_notebook_lm(full_text, now)
                    ELSE [raised |-> FALSE, comm |-> <<>>],
                    IF email_type = "CAPTABLE"
                    THEN _extract_cap_table(full_text, now) ELSE <<>>,
                    extract_amounts(full_text),
                    extract_dates(full_text),
                    extract_ownership(full_text),
                    Contains(Lower(full_text), <<"i", "n", "v", "e", "s", "t", "e", "d">>))
    IN  category(_classify_email(email_data.subject, email_data.body),
                 email_data.subject \o <<"\n">> \o email_data.body)

(***************************************************************************)
(* RobustCSVParser (src/mcc-portfolio-agent/csv-parser-backfill.py):       *)
(* company-name normalisation                                              *)
(***************************************************************************)

\* \w of a str pattern, on ASCII text
IsWordChar(c) ==
    \/ LowerChar(c) \in {"a", "b", "c", "d", "e", "f", "g", "h", "i", "j", "k", "l", "m",
                         "n", "o", "p", "q", "r", "s", "t", "u", "v", "w", "x", "y", "z"}
    \/ c \in Digits
    \/ c = "_"

IsSpaceChar(c) == c \in {" ", "\n", "\t"}

\* re.sub(r'\b(LLC|Inc|Corp|Corporation|Ltd|Limited|Co|Company)\b', '', s,
\* flags=re.IGNORECASE) from 0-based offset i on: the pattern is made of word
\* characters between two \b, so it matches exactly a whole word of the list
RECURSIVE RemoveSuffixWords(_, _)
RemoveSuffixWords(s, i) ==
    LET suffixes == { <<"l", "l", "c">>, <<"i", "n", "c">>, <<"c", "o", "r", "p">>, <<"c", "o", "r", "p", "o", "r",
                                                    "a", "t", "i", "o", "n">>, <<"l", "t", "d">>, <<"l",
                                                                              "i",
                                                                              "m",
                                                                              "i",
                                                                              "t",
                                                                              "e",
                                                                              "d">>,
                      <<"c", "o">>, <<"c", "o", "m", "p", "a", "n", "y">> }
        wordEnd == CHOOSE j \in (i + 1)..Len(s) :
                      /\ \A k \in (i + 1)..j : IsWordChar(s[k])
                      /\ j = Len(s) \/ ~IsWordChar(s[j + 1])
        sub(j) == (IF Lower(Slice(s, i, j)) \in suffixes THEN <<>> ELSE Slice(s, i, j))
                  \o RemoveSuffixWords(s, j)
    IN  IF i >= Len(s) THEN <<>>
        ELSE IF IsWordChar(s[i + 1]) THEN sub(wordEnd)
        ELSE <<s[i + 1]>> \o RemoveSuffixWords(s, i + 1)

\* ' '.join(s.split())
RECURSIVE SplitJoin(_)
SplitJoin(s) ==
    LET wordEnd == CHOOSE j \in 1..Len(s) :
                      /\ \A k \in 1..j : ~IsSpaceChar(s[k])
                      /\ j = Len(s) \/ IsSpaceChar(s[j + 1])
        join(word, rest) == word \o (IF rest = <<>> THEN <<>> ELSE <<" ">> \o rest)
        split(j) == join(SubSeq(s, 1, j), SplitJoin(SubSeq(s, j + 1, Len(s))))
    IN  IF s = <<>> THEN <<>>
        ELSE IF IsSpaceChar(s[1]) THEN SplitJoin(Tail(s))
        ELSE split(wordEnd)

_normalize_company_name(name) ==
    IF name = <<>> THEN <<>>
    ELSE Lower(SplitJoin(SelectSeq(RemoveSuffixWords(name, 0),
                                   LAMBDA c : IsWordChar(c) \/ IsSpaceChar(c))))

(***************************************************************************)
(* RobustCSVParser: cells.  A cell of the frame is a text, or NaN for a    *)
(* cell pandas read as missing.                                            *)
(***************************************************************************)

NaN == <<"<nan>">>

\* None, where the other values are records (a Decimal, a datetime)
NoValue == [none |-> TRUE]

\* the NameError of `decimal.InvalidOperation` in the except clauses: the
\* module imports Decimal only, so the clause itself raises
NameError == [raised |-> "NameError"]

\* str.strip
RECURSIVE Strip(_)
Strip(s) ==
    IF s = <<>> THEN <<>>
    ELSE IF IsSpaceChar(s[1]) THEN Strip(Tail(s))
    ELSE IF IsSpaceChar(s[Len(s)]) THEN Strip(SubSeq(s, 1, Len(s) - 1))
    ELSE s

\* Decimal(s): [ok, value], ok = FALSE is decimal.InvalidOperation.  The
\* numeric strings: [sign] digits [. digits] [e [sign] digits], with at least
\* one digit in the mantissa.
DecimalOf(s) ==
    LET fail == [ok |-> FALSE, value |-> [coef |-> 0, exp |-> 0]]
        digits(t) == t # <<>> /\ \A k \in 1..Len(t) : t[k] \in Digits
        mantissa(t) ==
            /\ \A k \in 1..Len(t) : t[k] \in Digits \cup {"."}
            /\ Cardinality({k \in 1..Len(t) : t[k] = "."}) <= 1
            /\ \E k \in 1..Len(t) : t[k] \in Digits
        signed(t) == IF t # <<>> /\ t[1] \in {"+", "-"} THEN Tail(t) ELSE t
        negative(t) == t # <<>> /\ t[1] = "-"
        int(t) == IF negative(t) THEN 0 - DigitsToInt(signed(t)) ELSE DigitsToInt(signed(t))
        number(neg, m, e) ==
            IF mantissa(m) /\ (e = <<>> \/ digits(signed(e)))
            THEN [ok |-> TRUE,
                  value |-> Scale([coef |-> (IF neg THEN 0 - 1 ELSE 1) * ParseDecimal(m).coef,
                                   exp |-> ParseDecimal(m).exp],
                                  IF e = <<>> THEN 0 ELSE int(e))]
            ELSE fail
        split(neg, t, es) ==
            IF es = {} THEN number(neg, t, <<>>)
            ELSE IF Cardinality(es) > 1 \/ es = {Len(t)} THEN fail
            ELSE number(neg, SubSeq(t, 1, (CHOOSE k \in es : TRUE) - 1),
                        SubSeq(t, (CHOOSE k \in es : TRUE) + 1, Len(t)))
        body(neg, t) == split(neg, t, {k \in 1..Len(t) : t[k] \in {"e", "E"}})
    IN  body(negative(s), signed(s))

\* a < b on Decimals
DecimalLess(a, b) ==
    LET m == Min(a.exp, b.exp)
    IN  a.coef * 10^(a.exp - m) < b.coef * 10^(b.exp - m)

clean_currency(value) ==
    LET parsed(d, k) == IF d.ok THEN Scale(d.value, k) ELSE NameError
        \* K/M/B notation
        suffix(s) ==
            IF s # <<>> /\ LowerChar(s[Len(s)]) = "k"
                THEN parsed(DecimalOf(SubSeq(s, 1, Len(s) - 1)), 3)
            ELSE IF s # <<>> /\ LowerChar(s[Len(s)]) = "m"
                THEN parsed(DecimalOf(SubSeq(s, 1, Len(s) - 1)), 6)
            ELSE IF s # <<>> /\ LowerChar(s[Len(s)]) = "b"
                THEN parsed(DecimalOf(SubSeq(s, 1, Len(s) - 1)), 9)
            ELSE parsed(DecimalOf(s), 0)
        \* parentheses for negative values
        parens(s) ==
            IF s # <<>> /\ s[1] = "(" /\ s[Len(s)] = ")"
            THEN suffix(<<"-">> \o SubSeq(s, 2, Len(s) - 1))
            ELSE suffix(s)
    IN  IF value = NaN \/ value = <<>> THEN NoValue
        ELSE parens(SelectSeq(value, LAMBDA c : c \notin {"$", ","} /\ ~IsSpaceChar(c)))

clean_percentage(value) ==
    LET pct(d) == IF ~d.ok THEN NameError
                  ELSE IF DecimalLess([coef |-> 1, exp |-> 0], d.value) THEN d.value
                  ELSE Scale(d.value, 2)
    IN  IF value = NaN \/ value = <<>> THEN NoValue
        ELSE pct(DecimalOf(Strip(SelectSeq(Strip(value), LAMBDA c : c \notin {"%", ","}))))

\* parse_date of a text cell: [y, m, d, t], or NoValue when date_parser.parse
\* raises.  Modelled for 'YYYY-MM-DD', for the numeric and named forms of
\* DateutilParse, and for text with no digit in it (which raises).
parse_date(value) ==
    LET parsed(r) == IF r.ok THEN r.date ELSE NoValue
        iso == /\ Len(value) = 10
               /\ DigitRun(value, 0, 4) = 4 /\ value[5] = "-"
               /\ DigitRun(value, 5, 2) = 2 /\ value[8] = "-"
               /\ DigitRun(value, 8, 2) = 2
        ymd(y, m, d) == IF ValidDate(y, m, d) THEN [y |-> y, m |-> m, d |-> d, t |-> 0]
                        ELSE NoValue
    IN  IF value = NaN \/ value = <<>> THEN NoValue
        ELSE IF iso THEN ymd(DigitsToInt(Slice(value, 0, 4)), DigitsToInt(Slice(value, 5, 7)),
                             DigitsToInt(Slice(value, 8, 10)))
        ELSE IF NamedDateEnd(value, 0) = Len(value) \/ NumericDateEnd(value, 0) = Len(value)
             THEN parsed(DateutilParse(value))
        ELSE NoValue

(***************************************************************************)
(* RobustCSVParser: header detection and column mapping                    *)
(***************************************************************************)

\* the canonical fields in the order of the dict, each with its variations
COLUMN_MAPPINGS ==
    << [name |-> "company",
        variations |-> << <<"N", "a", "m", "e", " ", "o", "f", " ", "C", "o", "m",
                            "p", "a", "n", "y">>, <<"C", "o", "m", "p", "a", "n", "y",
                                                 " ", "N", "a", "m", "e">>, <<"C", "o", "m",
                                                                   "p", "a", "n",
                                                                   "y">>,
                          <<"P", "o", "r", "t", "f", "o", "l", "i", "o", " ", "C",
                            "o", "m", "p", "a", "n", "y">>, <<"L", "e", "g", "a", "l", " ",
                                                   "N", "a", "m", "e">>, <<"E", "n", "t",
                                                                   "i", "t", "y">>,
                          <<"I", "n", "v", "e", "s", "t", "m", "e", "n", "t", " ",
                            "N", "a", "m", "e">>, <<"N", "a", "m", "e">> >>],
       [name |-> "amount_invested",
        variations |-> << <<"T", "o", "t", "a", "l", " ", "A", "m", "o", "u", "n",
                            "t", " ", "I", "n", "v", "e", "s", "t", "e", "d">>, <<"I", "n", "v", "e", "s",
                                                       "t", "m", "e", "n", "t",
                                                       " ", "A", "m", "o", "u",
                                                       "n", "t">>,
                          <<"A", "m", "o", "u", "n", "t", " ", "I", "n", "v", "e",
                            "s", "t", "e", "d">>, <<"T", "o", "t", "a", "l", " ", "I",
                                                 "n", "v", "e", "s", "t", "m", "e",
                                                 "n", "t">>, <<"M", "C",
                                                                       "C", " ",
                                                                       "I", "n",
                                                                       "v", "e",
                                                                       "s", "t",
                                                                       "m", "e",
                                                                       "n", "t">>,
                          <<"A", "m", "o", "u", "n", "t">>, <<"I", "n", "v", "e", "s", "t", "m", "e",
                                        "n", "t">>, <<"T", "o", "t", "a", "l",
                                                        " ", "$", " ", "I", "n",
                                                        "v", "e", "s", "t", "e", "d">>,
                          <<"I", "n", "v", "e", "s", "t", "m", "e", "n", "t", " ",
                            "(", "$", ")">>, <<"A", "m", "o", "u", "n", "t", " ",
                                                "(", "U", "S", "D", ")">> >>],
       [name |-> "date",
        variations |-> << <<"E", "a", "r", "l", "i", "e", "s", "t", " ", "D", "a",
                            "t", "e", " ", "o", "f", " ", "I", "n", "v", "e", "s",
                            "t", "m", "e", "n", "t">>, <<"I", "n", "v", "e",
                                                             "s", "t", "m", "e",
                                                             "n", "t", " ", "D",
                                                             "a", "t", "e">>,
                          <<"C", "l", "o", "s", "e", " ", "D", "a", "t", "e">>, <<"F", "i", "r", "s", "t", " ", "I", "n",
                                            "v", "e", "s", "t", "m", "e", "n", "t",
                                            " ", "D", "a", "t", "e">>,
                          <<"I", "n", "i", "t", "i", "a", "l", " ", "I", "n", "v",
                            "e", "s", "t", "m", "e", "n", "t">>, <<"D", "a", "t", "e">>, <<"C", "l", "o", "s",
                                                              "i", "n", "g", " ",
                                                              "D", "a", "t", "e">>,
                          <<"T", "r", "a", "n", "s", "a", "c", "t", "i", "o", "n",
                            " ", "D", "a", "t", "e">>, <<"E", "a", "r", "l", "i", "e",
                                                  "s", "t", " ", "D", "a", "t", "e">> >>],
       [name |-> "ownership",
        variations |-> << <<"E", "q", "u", "i", "t", "y", " ", "%">>, <<"O", "w", "n", "e", "r", "s", "h", "i",
                                          "p", " ", "%">>, <<"O", "w", "n", "e", "r",
                                                           "s", "h", "i", "p", " ",
                                                           "P", "e", "r", "c", "e",
                                                           "n", "t", "a", "g", "e">>,
                          <<"E", "q", "u", "i", "t", "y", " ", "P", "e", "r", "c",
                            "e", "n", "t", "a", "g", "e">>, <<"M", "C", "C", " ", "O", "w",
                                                   "n", "e", "r", "s", "h", "i", "p">>, <<"%", " ",
                                                                      "O", "w",
                                                                      "n", "e",
                                                                      "r", "s",
                                                                      "h", "i", "p">>,
                          <<"E", "q", "u", "i", "t", "y">>, <<"S", "t", "a", "k", "e">>, <<"O", "w", "n", "e", "r", "s",
                                                   "h", "i", "p">> >>],
       [name |-> "round_type",
        variations |-> << <<"R", "o", "u", "n", "d", " ", "T", "y", "p", "e">>, <<"I", "n", "v", "e", "s", "t", "m", "e",
                                            "n", "t", " ", "T", "y", "p", "e">>, <<"T", "y", "p", "e">>, <<"R",
                                                                           "o",
                                                                           "u",
                                                                           "n", "d">>,
                          <<"S", "e", "r", "i", "e", "s">>, <<"I", "n", "v", "e", "s", "t", "m", "e",
                                        "n", "t", " ", "R", "o", "u", "n", "d">>, <<"S", "t", "a", "g",
                                                              "e">> >>],
       [name |-> "valuation",
        variations |-> << <<"P", "r", "e", "-", "M", "o", "n", "e", "y", " ", "V",
                            "a", "l", "u", "a", "t", "i", "o", "n">>, <<"P", "r", "e", " ", "M", "o",
                                                     "n", "e", "y">>, <<"V", "a", "l",
                                                                    "u", "a", "t",
                                                                    "i", "o", "n">>,
                          <<"P", "r", "e", "-", "M", "o", "n", "e", "y">>, <<"C", "o", "m", "p", "a", "n", "y", " ",
                                           "V", "a", "l", "u", "a", "t", "i", "o",
                                           "n">>, <<"V", "a", "l">> >>],
       [name |-> "status",
        variations |-> << <<"S", "t", "a", "t", "u", "s">>, <<"C", "o", "m", "p", "a", "n", "y", " ",
                                        "S", "t", "a", "t", "u", "s">>, <<"C", "u", "r", "r",
                                                            "e", "n", "t", " ",
                                                            "S", "t", "a", "t",
                                                            "u", "s">>,
                          <<"I", "n", "v", "e", "s", "t", "m", "e", "n", "t", " ",
                            "S", "t", "a", "t", "u", "s">>, <<"A", "c", "t", "i", "v", "e",
                                                   "/", "I", "n", "a", "c", "t",
                                                   "i", "v", "e">>, <<"S", "t",
                                                                        "a", "t",
                                                                        "e">> >>],
       [name |-> "distributions",
        variations |-> << <<"D", "i", "s", "t", "r", "i", "b", "u", "t", "i", "o",
                            "n", "s">>, <<"T", "o", "t", "a", "l", " ", "D",
                                               "i", "s", "t", "r", "i", "b", "u",
                                               "t", "i", "o", "n", "s">>,
                          <<"D", "i", "s", "t", "r", "i", "b", "u", "t", "i", "o",
                            "n", " ", "A", "m", "o", "u", "n", "t">>, <<"D", "i", "s", "t", "r", "i",
                                                     "b", "u", "t", "i", "o", "n",
                                                     "s", " ", "t", "o", " ", "D",
                                                     "a", "t", "e">>,
                          <<"C", "a", "s", "h", " ", "D", "i", "s", "t", "r", "i",
                            "b", "u", "t", "e", "d">>, <<"R", "e", "t", "u", "r", "n", "s">> >>] >>

\* str(value) of a cell
CellStr(value) == IF value = NaN THEN <<"n", "a", "n">> ELSE value

\* the mapping of the columns, by position: the canonical name of the first
\* field one of whose variations is in the header, "" for a column not mapped
\* (the dict of the source holds the mapped columns in column order)
map_columns(df_columns) ==
    LET hit(col_clean, k) ==
            \E v \in 1..Len(COLUMN_MAPPINGS[k].variations) :
                Contains(Lower(col_clean), Lower(COLUMN_MAPPINGS[k].variations[v]))
        canonical(col_clean, hits) ==
            IF hits = {} THEN ""
            ELSE COLUMN_MAPPINGS[CHOOSE k \in hits : \A j \in hits : k <= j].name
        mapped(col_clean) ==
            canonical(col_clean, {k \in 1..Len(COLUMN_MAPPINGS) : hit(col_clean, k)})
    IN  [c \in 1..Len(df_columns) |-> mapped(Strip(CellStr(df_columns[c])))]

\* ' '.join(str(val) for val in row if pd.notna(val))
RECURSIVE JoinCells(_)
JoinCells(row) ==
    LET join(rest) ==
            IF row[1] = NaN THEN rest
            ELSE row[1] \o (IF \E k \in 2..Len(row) : row[k] # NaN THEN <<" ">> ELSE <<>>)
                 \o rest
    IN  IF row = <<>> THEN <<>> ELSE join(JoinCells(Tail(row)))

HeaderSearchLimit == 20

MinHeaderMatches == 3

\* the 0-based index of the header row of the frame
find_header_row(df) ==
    LET matches(row_str) ==
            Cardinality({k \in 1..Len(COLUMN_MAPPINGS) :
                \E v \in 1..Len(COLUMN_MAPPINGS[k].variations) :
                    Contains(row_str, COLUMN_MAPPINGS[k].variations[v])})
        first(found) == IF found = {} THEN 0
                        ELSE CHOOSE idx \in found : \A j \in found : idx <= j
    IN  first({idx \in 0..(Len(df) - 1) :
                  /\ idx <= HeaderSearchLimit
                  /\ matches(JoinCells(df[idx + 1])) >= MinHeaderMatches})

(***************************************************************************)
(* RobustCSVParser: company resolution and the record of one row           *)
(***************************************************************************)

\* self.company_lookup from the rows of portfolio.company: normalised name to
\* [id |-> company_id], in insertion order
RECURSIVE _build_company_lookup(_)
_build_company_lookup(rows) ==
    LET add(lookup, row) ==
            IF row.aka # NoText
            THEN DictSet(DictSet(lookup, _normalize_company_name(row.legal_name),
                                 [id |-> row.company_id]),
                         _normalize_company_name(row.aka), [id |-> row.company_id])
            ELSE DictSet(lookup, _normalize_company_name(row.legal_name),
                         [id |-> row.company_id])
    IN  IF rows = <<>> THEN <<>>
        ELSE add(_build_company_lookup(SubSeq(rows, 1, Len(rows) - 1)), rows[Len(rows)])

\* re.sub(r'[-\s]+', '-', s)
RECURSIVE HyphenRuns(_)
HyphenRuns(s) ==
    LET sep(c) == c = "-" \/ IsSpaceChar(c)
    IN  IF s = <<>> THEN <<>>
        ELSE IF sep(s[1]) /\ Len(s) > 1 /\ sep(s[2]) THEN HyphenRuns(Tail(s))
        ELSE (IF sep(s[1]) THEN <<"-">> ELSE <<s[1]>>) \o HyphenRuns(Tail(s))

\* the slug generated from a name that the lookup does not resolve
Slug(company_name) ==
    LET strip(t) == SubSeq(t, IF t # <<>> /\ t[1] = "-" THEN 2 ELSE 1,
                           IF Len(t) > 1 /\ t[Len(t)] = "-" THEN Len(t) - 1 ELSE Len(t))
    IN  strip(HyphenRuns(SelectSeq(Lower(company_name),
                                   LAMBDA c : IsWordChar(c) \/ IsSpaceChar(c) \/ c = "-")))

\* the company_id of a row, the containment scan made before the exact lookup
ResolveCompanyFuzzyFirst(lookup, company_name) ==
    LET generated == [found |-> FALSE, company_id |-> [slug |-> Slug(company_name)]]
        first(hits, normalized_name) ==
            IF hits # {}
            THEN [found |-> TRUE,
                  company_id |-> lookup[CHOOSE i \in hits : \A j \in hits : i <= j][2]]
            ELSE IF DictHas(lookup, normalized_name)
            THEN [found |-> TRUE, company_id |-> DictGet(lookup, normalized_name)]
            ELSE generated
        resolve(normalized_name) ==
            first({i \in 1..Len(lookup) :
                      \/ Contains(lookup[i][1], normalized_name)
                      \/ Contains(normalized_name, lookup[i][1])}, normalized_name)
    IN  resolve(_normalize_company_name(company_name))

\* the company_id of a row: [found, company_id], company_id being [id |-> ...]
\* of the lookup or [slug |-> ...] generated
ResolveCompany(lookup, company_name) ==
    LET generated == [found |-> FALSE, company_id |-> [slug |-> Slug(company_name)]]
        first(hits) ==
            IF hits = {} THEN generated
            ELSE [found |-> TRUE,
                  company_id |-> lookup[CHOOSE i \in hits : \A j \in hits : i <= j][2]]
        resolve(normalized_name) ==
            IF DictHas(lookup, normalized_name)
            THEN [found |-> TRUE, company_id |-> DictGet(lookup, normalized_name)]
            ELSE first({i \in 1..Len(lookup) :
                           \/ Contains(lookup[i][1], normalized_name)
                           \/ Contains(normalized_name, lookup[i][1])})
    IN  resolve(_normalize_company_name(company_name))

\* a key the record does not hold
Unset == [unset |-> TRUE]

\* the loop over the mapped columns from column c on: the record, or NameError
\* when a cell raises
RECURSIVE ExtractFields(_, _, _, _)
ExtractFields(column_mapping, row, c, record) ==
    LET set(field, value) ==
            IF value = NameError THEN NameError
            ELSE ExtractFields(column_mapping, row, c + 1, [record EXCEPT ![field] = value])
    IN  IF c > Len(column_mapping) THEN record
        ELSE CASE column_mapping[c] = "amount_invested" ->
                      set("amount_invested", clean_currency(row[c]))
               [] column_mapping[c] = "distributions" ->
                      set("distributions", clean_currency(row[c]))
               [] column_mapping[c] = "ownership" ->
                      set("ownership_pct", clean_percentage(row[c]))
               [] column_mapping[c] = "date" ->
                      set("investment_date", parse_date(row[c]))
               [] column_mapping[c] = "round_type" ->
                      set("round_type", IF row[c] # NaN THEN [text |-> Strip(row[c])]
                                        ELSE NoValue)
               [] column_mapping[c] = "valuation" ->
                      set("pre_money_valuation", clean_currency(row[c]))
               [] column_mapping[c] = "status" ->
                      set("status", [text |-> IF row[c] # NaN THEN Lower(Strip(row[c]))
                                              ELSE <<"a", "c", "t", "i", "v", "e">>])
               [] OTHER -> ExtractFields(column_mapping, row, c + 1, record)

FirstInvestmentYear == 1990

\* the issues of the validation rules, in the order the rules are tested
Validate(record) ==
    LET decimal(v) == "coef" \in DOMAIN v /\ v.coef # 0
        date(v) == "y" \in DOMAIN v
        later(a, b) == \/ a.y > b.y
                       \/ a.y = b.y /\ a.m > b.m
                       \/ a.y = b.y /\ a.m = b.m /\ a.d > b.d
    IN  (IF /\ decimal(record.amount_invested) /\ decimal(record.distributions)
            /\ DecimalLess(Scale(record.amount_invested, 1), record.distributions)
         THEN <<"Distributions exceed 10x investment">> ELSE <<>>)
        \o (IF decimal(record.ownership_pct)
               /\ DecimalLess([coef |-> 100, exp |-> 0], record.ownership_pct)
            THEN <<"Ownership > 100%">>
            ELSE IF decimal(record.ownership_pct)
                    /\ DecimalLess(record.ownership_pct, [coef |-> 0, exp |-> 0])
            THEN <<"Negative ownership">> ELSE <<>>)
        \o (IF date(record.investment_date) /\ later(record.investment_date, Today)
            THEN <<"Future investment date">>
            ELSE IF date(record.investment_date)
                    /\ record.investment_date.y < FirstInvestmentYear
            THEN <<"Investment date before 1990">> ELSE <<>>)

(***************************************************************************)
(* RobustCSVParser.parse_file, from the frame pandas has read              *)
(***************************************************************************)

\* one iteration of the row loop: [outcome, record, log], log being the
\* entries it appends to the reconciliation log
ProcessRow(lookup, column_mapping, source_row, row) ==
    LET first(S) == CHOOSE c \in S : \A j \in S : c <= j
        skip == [outcome |-> "skipped", record |-> Unset, log |-> <<>>]
        error(log) ==
            [outcome |-> "error", record |-> Unset,
             log |-> Append(log, [row |-> source_row,
                                  error |-> "name 'decimal' is not defined",
                                  raw_data |-> row])]
        emit(log, record, issues) ==
            [outcome |-> "emitted", record |-> record,
             log |-> IF issues = <<>> THEN log
                     ELSE Append(log, [row |-> source_row,
                                       company_name |-> record.company_name,
                                       issue |-> issues, data |-> record])]
        validate(log, record) ==
            IF record = NameError THEN error(log) ELSE emit(log, record, Validate(record))
        build(company_name, r) ==
            validate(IF r.found THEN <<>>
                     ELSE << [row |-> source_row, company_name |-> company_name,
                              issue |-> <<"Company not found in database">>,
                              suggested_id |-> r.company_id] >>,
                     ExtractFields(column_mapping, row, 1,
                         [company_id |-> r.company_id, company_name |-> company_name,
                          source_row |-> source_row, amount_invested |-> Unset,
                          distributions |-> Unset, ownership_pct |-> Unset,
                          investment_date |-> Unset, round_type |-> Unset,
                          pre_money_valuation |-> Unset, status |-> Unset]))
        named(company_name) ==
            IF company_name = <<>> THEN skip
            ELSE build(company_name, ResolveCompany(lookup, company_name))
        company(cs) ==
            IF cs = {} THEN skip
            ELSE IF row[first(cs)] = NaN THEN skip
            ELSE named(Strip(row[first(cs)]))
        keyed(mapped) ==
            IF mapped = {} THEN skip
            ELSE IF row[first(mapped)] = NaN THEN skip
            ELSE company({c \in mapped : column_mapping[c] = "company"})
    IN  keyed({c \in 1..Len(column_mapping) : column_mapping[c] # ""})

\* str.contains('Total|Summary|Grand', case=False) on the first cell of a row
IsSummaryRow(row) ==
    \E word \in { <<"t", "o", "t", "a", "l">>, <<"s", "u", "m", "m", "a", "r", "y">>, <<"g", "r", "a", "n", "d">> } :
        Contains(Lower(CellStr(row[1])), word)

\* a RobustCSVParser after __init__ with the lookup built from the directory
NewParser(lookup) ==
    [company_lookup |-> lookup, reconciliation_log |-> <<>>, pc |-> "idle", calls |-> 0,
     df |-> <<>>, header_row |-> 0, column_mapping |-> <<>>, rows |-> <<>>, pos |-> 0,
     extracted_data |-> <<>>, result |-> Unset]

(***************************************************************************)
(* The pipeline: queue deliveries, workers running main, the fact store    *)
(***************************************************************************)

\* queue deliveries (first deliveries and redeliveries together) in one run
MaxDeliveries == 3

\* persist_extraction calls on one envelope in the repeated-persist scenario
MaxCalls == 2

Workers == {"w1", "w2"}

\* the messages the MessageSource can yield
Messages ==
    <<
    \* an update from a known sender domain: one Update fact
       [id |-> "m1",
        subject |-> <<"[", "U", "P", "D", "A", "T", "E", "]", " ", "a", "c", "m", "e">>,
        body |-> <<"A", "R", "R", ":", " ", "5", "k">>,
        from |-> <<"a", "@", "a", "c", "m", "e", ".", "i", "o">>,
        receivedDateTime |-> <<"2", "0", "2", "5", "-", "0", "1", "-", "3", "1", "T", "1", "0", ":", "3", "0", ":", "0", "0", "Z">>,
        attachments |-> <<>>],
    \* an investment confirmation matched by name: two Cashflow facts dated by
    \* the close date and one Ownership fact
       [id |-> "m2",
        subject |-> <<"B", "o", "l", "t">>,
        body |-> <<"i", "n", "v", "e", "s", "t", "e", "d", " ", "$", "4", "5", "0", "k", " ", "c", "l", "o", "s", "e", "d", " ", "1", "/", "1", "5", "/", "2", "0", "2", "5", " ", "o", "w", "n", "s", " ", "5", "%", " ", "a", "s", " ", "o", "f", " ", "1", "/", "2", "0", "/", "2", "0", "2", "5">>,
        from |-> <<"x", "@", "v", "c", ".", "c", "o", "m">>,
        receivedDateTime |-> <<"2", "0", "2", "5", "-", "0", "1", "-", "3", "1", "T", "1", "0", ":", "3", "0", ":", "0", "0", "Z">>,
        attachments |-> <<>>],
    \* a message of no known company
       [id |-> "m3",
        subject |-> <<"h", "i">>,
        body |-> <<"i", "n", "v", "e", "s", "t", "e", "d", " ", "$", "7">>,
        from |-> <<"z", "@", "n", "o", "n", "e", ".", "o", "r", "g">>,
        receivedDateTime |-> <<"2", "0", "2", "5", "-", "0", "1", "-", "3", "1", "T", "1", "0", ":", "3", "0", ":", "0", "0", "Z">>,
        attachments |-> <<>>],
    \* a message of a known company that carries no fact, with an attachment
       [id |-> "m4",
        subject |-> <<"h", "i">>,
        body |-> <<"s", "e", "e", " ", "a", "t", "t", "a", "c", "h", "e", "d">>,
        from |-> <<"b", "@", "a", "c", "m", "e", ".", "i", "o">>,
        receivedDateTime |-> <<"2", "0", "2", "5", "-", "0", "1", "-", "3", "1", "T", "1", "0", ":", "3", "0", ":", "0", "0", "Z">>,
        attachments |-> << [id |-> "m4.1", name |-> <<"U", "p", "d", "a", "t", "e", ".", "p", "d", "f">>, contentType |-> "application/pdf"] >>]
    >>

MessageIds == 1..Len(Messages)

VARIABLES
    store,      \* the committed tables of the FactStore, each a bag of rows
    blobs,      \* the blobs of the BlobSink
    clock,      \* the next reading of the wall clock
    delivered,  \* queue deliveries so far
    worker,     \* per worker: the position and locals of its run of main
    snapshot,   \* the fact tables as the first successful call of a repeated
                \* persist left them
    probe,      \* a pure function under test: its input and its result
    parser,     \* a RobustCSVParser: its fields and its position in parse_file
    connections \* the database connections opened by main and not closed

vars == <<store, blobs, clock, delivered, worker, snapshot, probe, parser,
          connections>>

ZeroCounts ==
    [company |-> 0, rounds |-> 0, ownerships |-> 0, cashflows |-> 0,
     updates |-> 0, contacts |-> 0, documents |-> 0]

EmptyStore ==
    [cashflow |-> EmptyBag, ownership |-> EmptyBag, update |-> EmptyBag,
     ingestion_log |-> EmptyBag]

IdleWorker ==
    [pc |-> "idle", msg |-> 0, now |-> 0, company_id |-> None, idx |-> 0,
     txn |-> <<>>, records_created |-> ZeroCounts, outcome |-> "none",
     ops |-> <<>>, calls |-> 0]

NoProbe == [fn |-> "none"]

\* the company cache a run builds from the directory
company_cache == _load_company_mappings(CompanyTable)

\* the match_company of every message, computed once
MatchTable ==
    [m \in MessageIds |->
        match_company(company_cache, Messages[m].from, Messages[m].subject,
                      Messages[m].body)]

\* every extraction a run can make, computed once
ExtractionTable ==
    [m \in MessageIds |->
        [t \in 0..MaxDeliveries |-> extract_from_email(Messages[m], t)]]

\* the documents main appends for the attachments it has saved
Documents(email_data) ==
    [k \in 1..Len(email_data.attachments) |->
        [doc_id |-> email_data.attachments[k].id,
         title |-> email_data.attachments[k].name,
         doc_type |-> email_data.attachments[k].contentType]]

\* the extraction_result a worker hands to persist_extraction
Envelope(wk) ==
    LET extracted == ExtractionTable[wk.msg][wk.now].result
    IN  [extracted EXCEPT
            !.company_id = wk.company_id,
            !.facts.documents = IF wk.company_id # None
                                THEN Documents(Messages[wk.msg]) ELSE <<>>]

(***************************************************************************)
(* DataPersister.persist_extraction                                        *)
(***************************************************************************)

\* the unique key named by ON CONFLICT (company_id, date, amount, wire_ref);
\* the insert gives no wire_ref
CashflowKey(row) == <<row.company_id, row.date, row.amount>>

\* the unique key named by ON CONFLICT (company_id, as_of_date, security_class);
\* the insert gives no security_class
OwnershipKey(row) == <<row.company_id, row.as_of_date>>

\* persist_extraction with the ingestion-log insert ahead of the fact inserts
StatementsLogFirst(env) ==
    << [table |-> "ingestion_log", fact |-> <<>>] >>
    \o [k \in 1..Len(env.facts.cashflows) |->
        [table |-> "cashflow", fact |-> env.facts.cashflows[k]]]
    \o [k \in 1..Len(env.facts.ownerships) |->
        [table |-> "ownership", fact |-> env.facts.ownerships[k]]]
    \o [k \in 1..Len(env.facts.updates) |->
        [table |-> "update", fact |-> env.facts.updates[k]]]

\* the statements of one call, in the order the source executes them
Statements(env) ==
    [k \in 1..Len(env.facts.cashflows) |->
        [table |-> "cashflow", fact |-> env.facts.cashflows[k]]]
    \o [k \in 1..Len(env.facts.ownerships) |->
        [table |-> "ownership", fact |-> env.facts.ownerships[k]]]
    \o [k \in 1..Len(env.facts.updates) |->
        [table |-> "update", fact |-> env.facts.updates[k]]]
    \o << [table |-> "ingestion_log", fact |-> <<>>] >>

\* the row one statement inserts; rc is records_created when it executes
StatementRow(env, stmt, rc) ==
    CASE stmt.table = "cashflow" ->
           [company_id |-> env.company_id,
            date |-> stmt.fact.date,
            kind |-> stmt.fact.kind,
            amount |-> stmt.fact.amount,
            source_type |-> env.source_ptr.source_type,
            source_id |-> env.source_ptr.source_id,
            extraction_confidence |-> stmt.fact.confidence]
      [] stmt.table = "ownership" ->
           [company_id |-> env.company_id,
            as_of_date |-> stmt.fact.as_of_date,
            fully_diluted_pct |-> stmt.fact.fully_diluted_pct,
            source_type |-> env.source_ptr.source_type,
            source_id |-> env.source_ptr.source_id,
            extraction_confidence |-> stmt.fact.confidence]
      [] stmt.table = "update" ->
           [company_id |-> env.company_id,
            period_start |-> stmt.fact.period_start,
            period_end |-> stmt.fact.period_end,
            report_period |-> stmt.fact.report_period,
            metrics |-> stmt.fact.metrics,
            qualitative_summary |-> stmt.fact.qualitative_summary,
            confidence |-> stmt.fact.confidence,
            source_type |-> env.source_ptr.source_type,
            source_id |-> env.source_ptr.source_id,
            extraction_confidence |-> stmt.fact.confidence]
      [] stmt.table = "ingestion_log" ->
           [source_type |-> env.source_ptr.source_type,
            source_id |-> env.source_ptr.source_id,
            company_id |-> env.company_id,
            records_created |-> rc,
            confidence_scores |-> env.confidence_overall,
            anomalies |-> env.anomalies,
            assumptions |-> env.assumptions,
            status |-> "success"]

Rows(bag) == BagToSet(bag)

AddRow(bag, row) == bag (+) SetToBag({row})

\* the effect of one write on the tables it can see
Apply(tables, write) ==
    CASE write.table = "cashflow" ->
           \* ON CONFLICT ... DO NOTHING
           IF \E e \in Rows(tables.cashflow) : CashflowKey(e) = CashflowKey(write.row)
           THEN tables
           ELSE [tables EXCEPT !.cashflow = AddRow(@, write.row)]
      [] write.table = "ownership" ->
           \* ON CONFLICT ... DO UPDATE SET fully_diluted_pct, extraction_confidence
           LET hit == {e \in Rows(tables.ownership) :
                          OwnershipKey(e) = OwnershipKey(write.row)}
           IN  IF hit = {}
               THEN [tables EXCEPT !.ownership = AddRow(@, write.row)]
               ELSE LET e == CHOOSE x \in hit : TRUE
                    IN  [tables EXCEPT !.ownership =
                            AddRow(@ (-) SetToBag({e}),
                                   [e EXCEPT
                                      !.fully_diluted_pct = write.row.fully_diluted_pct,
                                      !.extraction_confidence =
                                          write.row.extraction_confidence])]
      [] write.table = "update" ->
           [tables EXCEPT !.update = AddRow(@, write.row)]
      [] write.table = "ingestion_log" ->
           [tables EXCEPT !.ingestion_log = AddRow(@, write.row)]

RECURSIVE ApplyAll(_, _)
ApplyAll(tables, writes) ==
    IF Len(writes) = 0 THEN tables
    ELSE ApplyAll(Apply(tables, Head(writes)), Tail(writes))

\* whether the statement's RETURNING clause yields a row (cur.fetchone())
Returned(tables, write) ==
    CASE write.table = "cashflow" ->
           ~\E e \in Rows(tables.cashflow) : CashflowKey(e) = CashflowKey(write.row)
      [] write.table = "ownership" -> TRUE
      [] write.table = "update" -> TRUE
      [] write.table = "ingestion_log" -> FALSE

\* records_created after the statement
Counted(rc, write, returned) ==
    IF ~returned THEN rc
    ELSE CASE write.table = "cashflow" -> [rc EXCEPT !.cashflows = @ + 1]
           [] write.table = "ownership" -> [rc EXCEPT !.ownerships = @ + 1]
           [] write.table = "update" -> [rc EXCEPT !.updates = @ + 1]

\* the same unique key: the rows of two transactions that cannot both be
\* pending
SameKey(a, b) ==
    /\ a.table = b.table
    /\ \/ a.table = "cashflow" /\ CashflowKey(a.row) = CashflowKey(b.row)
       \/ a.table = "ownership" /\ OwnershipKey(a.row) = OwnershipKey(b.row)

\* the statement waits for the transaction of another worker that holds an
\* uncommitted row of the same key
Blocked(w, write) ==
    \E v \in Workers \ {w} :
        \E k \in 1..Len(worker[v].txn) : SameKey(worker[v].txn[k], write)

OpName(table) ==
    CASE table = "cashflow" -> "insert_cashflow"
      [] table = "ownership" -> "upsert_ownership"
      [] table = "update" -> "insert_update"
      [] table = "ingestion_log" -> "insert_log"

\* persist_extraction without the early return: the message of no company is
\* logged and the log row committed
PersistSkipLogged(w) ==
    /\ worker[w].pc = "persist"
    /\ worker[w].company_id = None
    /\ store' = [store EXCEPT !.ingestion_log =
                    AddRow(@, StatementRow(Envelope(worker[w]),
                                           [table |-> "ingestion_log", fact |-> <<>>],
                                           ZeroCounts))]
    /\ worker' = [worker EXCEPT
            ![w].outcome = "skipped",
            ![w].ops = <<"insert_log", "commit">>,
            ![w].pc = "returned"]
    /\ UNCHANGED <<blobs, clock, delivered, snapshot, probe, parser, connections>>

\* if not company_id: return {'status': 'skipped', ...}
PersistSkip(w) ==
    /\ worker[w].pc = "persist"
    /\ worker[w].company_id = None
    /\ worker' = [worker EXCEPT ![w].outcome = "skipped", ![w].pc = "returned"]
    /\ UNCHANGED <<store, blobs, clock, delivered, snapshot, probe, parser, connections>>

\* one cur.execute of the call, with the count it adds to records_created
PersistStatement(w) ==
    LET wk == worker[w]
        execute(stmt, write) ==
            /\ ~Blocked(w, write)
            /\ worker' = [worker EXCEPT
                    ![w].txn = Append(@, write),
                    ![w].idx = @ + 1,
                    ![w].records_created =
                        Counted(@, write, Returned(ApplyAll(store, wk.txn), write)),
                    ![w].ops = Append(@, OpName(stmt.table))]
        statement(env, stmt) ==
            execute(stmt, [table |-> stmt.table,
                           row |-> StatementRow(env, stmt, wk.records_created)])
        next(env, stmts) ==
            /\ wk.idx < Len(stmts)
            /\ statement(env, stmts[wk.idx + 1])
        call(env) == next(env, Statements(env))
    IN  /\ wk.pc = "persist"
        /\ wk.company_id # None
        /\ call(Envelope(wk))
        /\ UNCHANGED <<store, blobs, clock, delivered, snapshot, probe, parser, connections>>

\* self.db_conn.commit() and the return of the success result
PersistCommit(w) ==
    LET wk == worker[w]
    IN  /\ wk.pc = "persist"
        /\ wk.company_id # None
        /\ wk.idx = Len(Statements(Envelope(wk)))
        /\ store' = ApplyAll(store, wk.txn)
        /\ worker' = [worker EXCEPT
                ![w].txn = <<>>,
                ![w].ops = Append(@, "commit"),
                ![w].outcome = "success",
                ![w].pc = "returned"]
        /\ snapshot' = IF wk.calls = 1 THEN store' ELSE snapshot
        /\ UNCHANGED <<blobs, clock, delivered, probe, parser, connections>>

\* persist_extraction on an autocommit connection: the statements executed
\* before the failure stay
PersistFailAutocommit(w) ==
    LET wk == worker[w]
    IN  /\ wk.pc = "persist"
        /\ wk.company_id # None
        /\ store' = ApplyAll(store, wk.txn)
        /\ worker' = [worker EXCEPT
                ![w].txn = <<>>,
                ![w].ops = Append(@, "rollback"),
                ![w].outcome = "raised",
                ![w].pc = "returned"]
        /\ UNCHANGED <<blobs, clock, delivered, snapshot, probe, parser, connections>>

\* persist_extraction with an except clause that rolls back and starts the
\* statements over instead of re-raising
PersistFailRetry(w) ==
    LET wk == worker[w]
    IN  /\ wk.pc = "persist"
        /\ wk.company_id # None
        /\ Len(wk.ops) < 2 * Len(Statements(Envelope(wk)))
        /\ worker' = [worker EXCEPT
                ![w].txn = <<>>,
                ![w].idx = 0,
                ![w].records_created = ZeroCounts,
                ![w].ops = Append(@, "rollback")]
        /\ UNCHANGED <<store, blobs, clock, delivered, snapshot, probe, parser, connections>>

\* except Exception: rollback and re-raise; the cursor, any statement or the
\* commit may have raised
PersistFail(w) ==
    LET wk == worker[w]
    IN  /\ wk.pc = "persist"
        /\ wk.company_id # None
        /\ worker' = [worker EXCEPT
                ![w].txn = <<>>,
                ![w].ops = Append(@, "rollback"),
                ![w].outcome = "raised",
                ![w].pc = "returned"]
        /\ UNCHANGED <<store, blobs, clock, delivered, snapshot, probe, parser, connections>>

(***************************************************************************)
(* main and DataPersister.save_to_sharepoint                               *)
(***************************************************************************)

\* the folder of a doc_type, 'Documents' by default
Folder(doc_type) ==
    CASE doc_type = "email" -> "Email-Exports"
      [] doc_type = "update" -> "Updates"
      [] doc_type = "financial" -> "Finance"
      [] doc_type = "legal" -> "Legal"
      [] OTHER -> "Documents"

\* the blob save_to_sharepoint writes (overwrite = True: blobs is a set)
save_to_sharepoint(company_id, stamp, name, doc_type) ==
    [company_id |-> company_id, folder |-> Folder(doc_type),
     stamp |-> stamp, name |-> name]

\* the uploads of one run, in order: the message, then each attachment
Uploads(wk) ==
    LET email_data == Messages[wk.msg]
    IN  << save_to_sharepoint(wk.company_id, NowCall(wk.now, 99).t,
                              <<email_data.id>>, "email") >>
        \o [k \in 1..Len(email_data.attachments) |->
              LET name == email_data.attachments[k].name
              IN  save_to_sharepoint(wk.company_id, 0, name,
                      IF Contains(Lower(name), <<"u", "p", "d", "a", "t", "e">>)
                      THEN "update" ELSE "document")]

SeqToSet(q) == {q[k] : k \in 1..Len(q)}

\* the queue trigger starts main on a message: the connections are opened
Receive(w) ==
    /\ worker[w].pc = "idle"
    /\ delivered < MaxDeliveries
    /\ \E m \in MessageIds :
          worker' = [worker EXCEPT ![w] = [IdleWorker EXCEPT !.pc = "fetch", !.msg = m]]
    /\ delivered' = delivered + 1
    /\ connections' = connections + 1
    /\ UNCHANGED <<store, blobs, clock, snapshot, probe, parser>>

\* the queue trigger starts main on a message, psycopg2.connect opens the
\* connection and BlobServiceClient.from_connection_string raises: main
\* raises before its try statement is entered
StorageClientFail(w) ==
    /\ worker[w].pc = "idle"
    /\ delivered < MaxDeliveries
    /\ delivered' = delivered + 1
    /\ connections' = connections + 1
    /\ UNCHANGED <<store, blobs, clock, worker, snapshot, probe, parser>>

\* get_email_from_graph, match_company and extract_from_email
Process(w) ==
    LET wk == worker[w]
        company_id == MatchTable[wk.msg]
        raised == ExtractionTable[wk.msg][clock].raised
    IN  /\ wk.pc = "fetch"
        /\ worker' = [worker EXCEPT
                ![w].now = clock,
                ![w].company_id = company_id,
                ![w].outcome = IF raised THEN "raised" ELSE "none",
                ![w].pc = IF raised THEN "except"
                          ELSE IF company_id # None THEN "archive" ELSE "persist"]
        /\ clock' = clock + 1
        /\ UNCHANGED <<store, blobs, delivered, snapshot, probe, parser, connections>>

\* get_email_from_graph raises
FetchFail(w) ==
    /\ worker[w].pc = "fetch"
    /\ worker' = [worker EXCEPT ![w].outcome = "raised", ![w].pc = "except"]
    /\ UNCHANGED <<store, blobs, clock, delivered, snapshot, probe, parser, connections>>

\* if company_id: the message and its attachments are saved
Archive(w) ==
    /\ worker[w].pc = "archive"
    /\ blobs' = blobs \cup SeqToSet(Uploads(worker[w]))
    /\ worker' = [worker EXCEPT ![w].pc = "persist"]
    /\ UNCHANGED <<store, clock, delivered, snapshot, probe, parser, connections>>

\* an upload raises after the k uploads before it
ArchiveFail(w) ==
    /\ worker[w].pc = "archive"
    /\ \E k \in 0..(Len(Uploads(worker[w])) - 1) :
          blobs' = blobs \cup SeqToSet(SubSeq(Uploads(worker[w]), 1, k))
    /\ worker' = [worker EXCEPT ![w].outcome = "raised", ![w].pc = "except"]
    /\ UNCHANGED <<store, clock, delivered, snapshot, probe, parser, connections>>

\* finally: db_conn.close(); the run ends, having logged or re-raised
Close(w) ==
    /\ worker[w].pc \in {"returned", "except"}
    /\ worker[w].calls = 0
    /\ worker' = [worker EXCEPT ![w] = IdleWorker]
    /\ connections' = connections - 1
    /\ UNCHANGED <<store, blobs, clock, delivered, snapshot, probe, parser>>

Init ==
    /\ connections = 0
    /\ store = EmptyStore
    /\ blobs = {}
    /\ clock = 0
    /\ delivered = 0
    /\ worker = [w \in Workers |-> IdleWorker]
    /\ snapshot = EmptyStore
    /\ probe = NoProbe
    /\ parser = NewParser(<<>>)

Next ==
    \E w \in Workers :
        \/ Receive(w)
        \/ StorageClientFail(w)
        \/ Process(w)
        \/ FetchFail(w)
        \/ Archive(w)
        \/ ArchiveFail(w)
        \/ PersistSkip(w)
        \/ PersistStatement(w)
        \/ PersistCommit(w)
        \/ PersistFail(w)
        \/ Close(w)

Spec == Init /\ [][Next]_vars

(***************************************************************************)
(* persist_extraction called again with the same envelope                  *)
(***************************************************************************)

\* the caller hands the envelope it has just persisted to persist_extraction
\* once more
PersistAgain(w) ==
    /\ worker[w].pc = "returned"
    /\ worker[w].calls >= 1
    /\ worker[w].calls < MaxCalls
    /\ worker' = [worker EXCEPT
            ![w].pc = "persist",
            ![w].idx = 0,
            ![w].records_created = ZeroCounts,
            ![w].outcome = "none",
            ![w].ops = <<>>,
            ![w].calls = @ + 1]
    /\ UNCHANGED <<store, blobs, clock, delivered, snapshot, probe, parser, connections>>

\* one persister on an empty store, holding the envelope main built for a
\* message
InitPersist ==
    /\ connections = 1
    /\ store = EmptyStore
    /\ blobs = {}
    /\ delivered = 1
    /\ snapshot = EmptyStore
    /\ probe = NoProbe
    /\ parser = NewParser(<<>>)
    /\ \E m \in MessageIds, now \in 0..(MaxDeliveries - 1) :
          /\ clock = now + 1
          /\ worker = [w \in Workers |->
                        IF w = "w1"
                        THEN [IdleWorker EXCEPT
                                !.pc = "persist", !.msg = m, !.now = now, !.calls = 1,
                                !.company_id = MatchTable[m]]
                        ELSE IdleWorker]

NextPersist ==
    \/ PersistSkip("w1")
    \/ PersistStatement("w1")
    \/ PersistCommit("w1")
    \/ PersistFail("w1")
    \/ PersistAgain("w1")

SpecPersist == InitPersist /\ [][NextPersist]_vars

(***************************************************************************)
(* The pure functions of the matcher and the extractor, applied to         *)
(* messages drawn from senders, subjects and bodies                        *)
(***************************************************************************)

ProbeSenders ==
    << <<"a", "@", "a", "c", "m", "e", ".", "i", "o">>,
       <<"A", "@", "A", "C", "M", "E", ".", "I", "O">>,
       <<"x", "@", "v", "c", ".", "c", "o", "m">>,
       <<"y", "@", "b", "l", "t">>,
       <<"n", "o", "b", "o", "d", "y">> >>

ProbeSubjects ==
    << <<"h", "i">>,
       <<"[", "U", "P", "D", "A", "T", "E", "]", " ", "B", "o", "l", "t">>,
       <<"M", "o", "n", "t", "h", "l", "y", " ", "U", "p", "d", "a", "t", "e">>,
       <<"[", "F", "I", "N", "A", "N", "C", "I", "A", "L", "S", "]", " ", "[", "B",
         "O", "A", "R", "D", "]">>,
       <<"[", "b", "o", "a", "r", "d", "]", " ", "[", "c", "a", "p", "t", "a", "b",
         "l", "e", "]">>,
       <<"[", "N", "o", "t", "e", "b", "o", "o", "k", "L", "M", "]", " ", "B", "o",
         "l", "t">>,
       <<"[", "C", "A", "P", "T", "A", "B", "L", "E", "]", " ", "a", "c", "m", "e",
         " ", "i", "n", "c">>,
       <<"f", "i", "n", "a", "n", "c", "i", "a", "l", " ", "s", "t", "a", "t", "e",
         "m", "e", "n", "t", "s">> >>

\* the cases of test_amount_extraction, and one of the 'USD' form: the text
\* and the amount expected of it
AmountCases ==
    << [text |-> <<"R", "e", "v", "e", "n", "u", "e", " ", "i", "s", " ", "$", "1",
                   ",", "2", "3", "4", ",", "5", "6", "7", ".", "8", "9", " ", "t",
                   "h", "i", "s", " ", "q", "u", "a", "r", "t", "e", "r">>,
        amount |-> [coef |-> 123456789, exp |-> (0 - 2)]],
       [text |-> <<"W", "e", " ", "r", "a", "i", "s", "e", "d", " ", "2", ".", "5",
                   "M", " ", "i", "n", " ", "f", "u", "n", "d", "i", "n", "g">>,
        amount |-> [coef |-> 25, exp |-> 5]],
       [text |-> <<"B", "u", "r", "n", " ", "r", "a", "t", "e", ":", " ", "$", "4",
                   "5", "0", "k", " ", "m", "o", "n", "t", "h", "l", "y">>,
        amount |-> [coef |-> 45, exp |-> 4]],
       [text |-> <<"v", "a", "l", "u", "a", "t", "i", "o", "n", " ", "o", "f", " ",
                   "1", "5", " ", "m", "i", "l", "l", "i", "o", "n", " ", "d", "o",
                   "l", "l", "a", "r", "s">>,
        amount |-> [coef |-> 15, exp |-> 6]],
       [text |-> <<"$", "1", ".", "2", "B", " ", "m", "a", "r", "k", "e", "t", " ",
                   "c", "a", "p">>,
        amount |-> [coef |-> 12, exp |-> 8]],
       [text |-> <<"w", "i", "r", "e", "d", " ", "5", "0", "0", "0", " ", "U", "S",
                   "D">>,
        amount |-> [coef |-> 5, exp |-> 3]] >>

\* bodies of the end-to-end scenarios: the investment confirmation of the test
\* suite in short, a confirmation that says 'invested' and 'owns', and the
\* metrics of the update email
ScenarioBodies ==
    << <<"C", "o", "n", "f", "i", "r", "m", "i", "n", "g", " ", "M", "C", "C", "'",
         "s", " ", "$", "7", "5", "0", ",", "0", "0", "0", " ", "i", "n", "v", "e",
         "s", "t", "m", "e", "n", "t", ".", " ", "M", "C", "C", " ", "o", "w", "n",
         "e", "r", "s", "h", "i", "p", ":", " ", "3", ".", "7", "5", "%", " ", "o",
         "n", " ", "a", " ", "f", "u", "l", "l", "y", " ", "d", "i", "l", "u", "t",
         "e", "d", " ", "b", "a", "s", "i", "s">>,
       <<"M", "C", "C", " ", "i", "n", "v", "e", "s", "t", "e", "d", " ", "a", "n",
         "d", " ", "o", "w", "n", "s", " ", "3", ".", "7", "5", "%", " ", "o", "n",
         " ", "a", " ", "f", "u", "l", "l", "y", " ", "d", "i", "l", "u", "t", "e",
         "d", " ", "b", "a", "s", "i", "s", " ", "a", "f", "t", "e", "r", " ", "i",
         "t", "s", " ", "$", "7", "5", "0", ",", "0", "0", "0", " ", "i", "n", "v",
         "e", "s", "t", "m", "e", "n", "t">>,
       <<"A", "R", "R", ":", " ", "$", "1", "5", ".", "5", "M", ",", " ", "R", "u",
         "n", "w", "a", "y", ":", " ", "1", "8", " ", "m", "o", "n", "t", "h", "s",
         ",", " ", "H", "e", "a", "d", "c", "o", "u", "n", "t", ":", " ", "5", "2">> >>

ProbeBodies ==
    << <<>>,
       <<"f", "i", "n", "a", "n", "c", "i", "a", "l", " ", "s", "t", "a", "t", "e",
         "m", "e", "n", "t", "s", " ", "a", "n", "d", " ", "b", "o", "a", "r", "d",
         " ", "d", "e", "c", "k">>,
       <<"B", "o", "a", "r", "d", " ", "D", "e", "c", "k", ",", " ", "c", "a", "p",
         " ", "t", "a", "b", "l", "e">>,
       <<"n", "o", "t", "e", "b", "o", "o", "k", " ", "l", "m", " ", "c", "a", "p",
         " ", "t", "a", "b", "l", "e">>,
       <<"C", "a", "p", " ", "T", "a", "b", "l", "e", ":", " ", "o", "w", "n", "s",
         " ", "5", "%">>,
       <<"m", "o", "n", "t", "h", "l", "y", " ", "u", "p", "d", "a", "t", "e">>,
       <<"B", "o", "l", "t", " ", "i", "n", "v", "e", "s", "t", "e", "d", " ", "$",
         "4", "5", "0", "k", " ", "c", "l", "o", "s", "e", "d", " ", "1", "/", "1",
         "5", "/", "2", "0", "2", "5", " ", "o", "w", "n", "s", " ", "5", "%", " ",
         "a", "s", " ", "o", "f", " ", "1", "/", "2", "0", "/", "2", "0", "2", "5">>,
       <<"a", "c", "m", "e", " ", "i", "n", "c", " ", "i", "n", "v", "e", "s", "t",
         "e", "d", " ", "$", "7", " ", "a", "n", "d", " ", "$", "8">>,
       <<"i", "n", "v", "e", "s", "t", "e", "d", " ", "$", "9", " ", "a", "t", " ",
         "a", " ", "p", "r", "e", "-", "m", "o", "n", "e", "y", " ", "v", "a", "l",
         "u", "a", "t", "i", "o", "n">>,
       <<"V", "a", "l", "u", "a", "t", "i", "o", "n", " ", "w", "a", "s", " ", "s",
         "e", "t", " ", "b", "y", " ", "t", "h", "e", " ", "l", "e", "a", "d", ";",
         " ", "t", "h", "e", " ", "t", "e", "r", "m", "s", " ", "a", "r", "e", " ",
         "i", "n", " ", "t", "h", "e", " ", "s", "i", "g", "n", "e", "d", " ", "p",
         "a", "p", "e", "r", "s", ":", " ", "$", "3", " ", "d", "u", "e">> >>
    \o [k \in 1..Len(AmountCases) |-> AmountCases[k].text]
    \o ScenarioBodies

ProbeEmails ==
    {[id |-> "p", from |-> ProbeSenders[f], subject |-> ProbeSubjects[s],
      body |-> ProbeBodies[b],
      receivedDateTime |-> Messages[1].receivedDateTime,
      attachments |-> <<>>] :
        f \in 1..Len(ProbeSenders), s \in 1..Len(ProbeSubjects), b \in 1..Len(ProbeBodies)}

InitFn ==
    /\ connections = 0
    /\ store = EmptyStore
    /\ blobs = {}
    /\ clock = 0
    /\ delivered = 0
    /\ worker = [w \in Workers |-> IdleWorker]
    /\ snapshot = EmptyStore
    /\ \E email_data \in ProbeEmails : probe = [fn |-> "none", email_data |-> email_data]
    /\ parser = NewParser(<<>>)

(***************************************************************************)
(* A RobustCSVParser parsing frames, one row of the loop at a time         *)
(***************************************************************************)

\* data rows of a frame, below the header
MaxRows == 2

\* parse_file calls on one parser
MaxParses == 2

\* the header of the sample sheet of the test suite, and one with the
\* 'Close Date' and 'Ownership %' variations
ProbeHeaders ==
    { << <<"N", "a", "m", "e", " ", "o", "f", " ", "C", "o", "m", "p", "a", "n", "y">>, <<"T", "o", "t", "a", "l", " ", "A", "m", "o", "u",
                                "n", "t", " ", "I", "n", "v", "e", "s", "t", "e",
                                "d">>, <<"E", "a", "r", "l", "i",
                                                           "e", "s", "t", " ", "D",
                                                           "a", "t", "e", " ", "o",
                                                           "f", " ", "I", "n", "v",
                                                           "e", "s", "t", "m", "e",
                                                           "n", "t">>,
         <<"E", "q", "u", "i", "t", "y", " ", "%">>, <<"S", "t", "a", "t", "u", "s">>, <<"D", "i", "s", "t", "r", "i", "b", "u", "t",
                                     "i", "o", "n", "s">> >>,
      << <<"C", "o", "m", "p", "a", "n", "y", " ", "N", "a", "m", "e">>, <<"A", "m", "o", "u", "n", "t", " ", "I", "n", "v", "e",
                             "s", "t", "e", "d">>, <<"C", "l", "o", "s", "e", " ",
                                                  "D", "a", "t", "e">>, <<"O", "w", "n",
                                                                  "e", "r", "s",
                                                                  "h", "i", "p",
                                                                  " ", "%">>,
         <<"S", "t", "a", "t", "u", "s">>, <<"D", "i", "s", "t", "r", "i", "b", "u", "t", "i", "o", "n",
                       "s">> >> }

\* rows under these headers: company, amount invested, date, ownership,
\* status, distributions
ProbeRows ==
    { << <<"C", "h", "a", "p", "u", "l", " ", "L", "L", "C">>, <<"$", "7", "5", "0", "k">>, <<"2", "0", "2", "0", "-", "0", "9", "-", "1",
                                      "0">>, <<"3", ".", "7", "5", "%">>, <<"A", "c", "t",
                                                                 "i", "v", "e">>, <<"$",
                                                                             "0">> >>,
      << <<"A", "c", "m", "e", " ", "I", "n", "c">>, <<"1", "0", "0", "0", "0", "0", "0">>, <<"2", "0", "2", "1", "-", "0", "1", "-", "0",
                                      "5">>, <<"1", "5", "0", "%">>, <<"A", "c", "t", "i",
                                                                "v", "e">>,
         <<"$", "2", "0", ",", "0", "0", "0", ",", "0", "0", "0">> >>,
      << <<"G", "r", "a", "n", "d", " ", "T", "o", "t", "a", "l">>, <<"$", "1", ",", "7", "5", "0", ",", "0", "0", "0">>, NaN, NaN, NaN, NaN >>,
      << NaN, NaN, NaN, NaN, NaN, NaN >>,
      << <<"G", "l", "o", "w", " ", "R", "e", "c", "i", "p", "e">>, <<"T", "B", "D">>, <<"1", "9", "8", "5", "-", "0", "4", "-", "1",
                                     "5">>, <<"2", "5", "0", "%">>, <<"E", "x", "i", "t",
                                                               "e", "d">>, <<"8",
                                                                           "5",
                                                                           "0",
                                                                           "0",
                                                                           "0",
                                                                           "0", "0">> >>,
      << <<"B", "o", "l", "t">>, NaN, <<"2", "0", "3", "0", "-", "0", "1", "-", "0", "1">>, <<"2", ".", "1", "%">>, NaN, NaN >>,
      << NaN, <<"$", "5", "0", "0", ",", "0", "0", "0">>, <<"2", "0", "1", "9", "-", "0", "3", "-", "0", "1">>, <<"1", "0", "%">>, <<"W", "r", "i", "t", "t",
                                                       "e", "n", " ", "O", "f", "f">>, <<"$", "0">> >> }

\* a row with an invested amount of 0 and distributions
ZeroAmountRow ==
    << <<"Z", "e", "t", "a">>, <<"$", "0">>, <<"2", "0", "2", "1", "-", "0", "1", "-", "0", "5">>, <<"5", "%">>, <<"A", "c", "t", "i", "v", "e">>, <<"$", "5", "0", "0">> >>

RECURSIVE RowSeqs(_)
RowSeqs(n) ==
    IF n = 0 THEN {<<>>}
    ELSE RowSeqs(n - 1) \cup {Append(rows, row) : rows \in RowSeqs(n - 1), row \in ProbeRows}

\* the frames pandas hands to parse_file: a header and up to MaxRows rows, a
\* title row, a header and one row, or a header and the row of amount 0
Frames ==
    {<<header>> \o rows : header \in ProbeHeaders, rows \in RowSeqs(MaxRows)}
    \cup {<< << <<"P", "o", "r", "t", "f", "o", "l", "i", "o", " ", "R", "e", "p",
                  "o", "r", "t">>, NaN, NaN, NaN, NaN, NaN >>, header, row >> :
             header \in ProbeHeaders, row \in ProbeRows}
    \cup {<<header, ZeroAmountRow>> : header \in ProbeHeaders}

\* parse_file up to the row loop, for every frame: the header row, the column
\* mapping, and the frame below the header without the summary rows, each row
\* with its index label
ParseStart ==
    [df \in Frames |->
        LET start(header_row) ==
                [header_row |-> header_row,
                 column_mapping |-> map_columns(df[header_row + 1]),
                 rows |-> SelectSeq([idx \in 1..(Len(df) - header_row - 1) |->
                                        [idx |-> idx - 1, row |-> df[header_row + 1 + idx]]],
                                    LAMBDA r : ~IsSummaryRow(r.row))]
        IN  start(find_header_row(df))]

\* a call of parse_file, up to the row loop
ParseFile ==
    /\ parser.pc \in {"idle", "returned"}
    /\ parser.calls < MaxParses
    /\ \E df \in Frames :
          parser' = [parser EXCEPT
                        !.pc = "rows", !.calls = @ + 1, !.df = df,
                        !.header_row = ParseStart[df].header_row,
                        !.column_mapping = ParseStart[df].column_mapping,
                        !.rows = ParseStart[df].rows,
                        !.pos = 0, !.extracted_data = <<>>, !.result = Unset]
    /\ UNCHANGED <<store, blobs, clock, delivered, worker, snapshot, probe, connections>>

\* one iteration of the row loop
ParseRow ==
    /\ parser.pc = "rows"
    /\ parser.pos < Len(parser.rows)
    /\ LET step(r) ==
               [parser EXCEPT
                   !.pos = @ + 1,
                   !.reconciliation_log = @ \o r.log,
                   !.extracted_data = IF r.outcome = "emitted" THEN Append(@, r.record)
                                      ELSE @]
       IN  parser' = step(ProcessRow(parser.company_lookup, parser.column_mapping,
                                     parser.rows[parser.pos + 1].idx + parser.header_row + 2,
                                     parser.rows[parser.pos + 1].row))
    /\ UNCHANGED <<store, blobs, clock, delivered, worker, snapshot, probe, connections>>

\* return extracted_data, self.reconciliation_log
ParseReturn ==
    /\ parser.pc = "rows"
    /\ parser.pos = Len(parser.rows)
    /\ parser' = [parser EXCEPT
                     !.pc = "returned",
                     !.result = [data |-> parser.extracted_data,
                                 log |-> parser.reconciliation_log]]
    /\ UNCHANGED <<store, blobs, clock, delivered, worker, snapshot, probe, connections>>

\* a parser made without a database connection, or with the directory loaded
InitCsv ==
    /\ connections = 0
    /\ store = EmptyStore
    /\ blobs = {}
    /\ clock = 0
    /\ delivered = 0
    /\ worker = [w \in Workers |-> IdleWorker]
    /\ snapshot = EmptyStore
    /\ probe = NoProbe
    /\ \E lookup \in {<<>>, _build_company_lookup(CompanyTable)} :
          parser = NewParser(lookup)

NextCsv ==
    \/ ParseFile
    \/ ParseRow
    \/ ParseReturn

SpecCsv == InitCsv /\ [][NextCsv]_vars

\* company names as a spreadsheet or the directory writes them
ProbeNames ==
    { <<>>, <<"B", "r", "i", "g", "h", "t", "W", "h", "e", "e", "l">>, <<"C", "h", "a", "p", "u", "l", " ", "L", "L", "C">>, <<"A", "c", "m", "e", ",", " ", "I",
                                               "n", "c", ".">>, <<"L", ".", "L", ".",
                                                               "C", ".">>, <<"B",
                                                                           "o",
                                                                           "l",
                                                                           "t",
                                                                           " ",
                                                                           "L",
                                                                           ".",
                                                                           "L",
                                                                           ".",
                                                                           "C", ".">>,
      <<" ", "D", "u", "d", "e", " ", " ", " ", "W", "i", "p", "e", "s", " ", "C",
        "o", ".", " ">>, <<"C", "o", ".", " ", "C", "o", "m", "p", "a", "n",
                                "y">>, <<"F", "o", "o", "-", "I", "n", "c">>, <<"M", "a", "r", "k",
                                                              " ", "C", "u", "b",
                                                              "a", "n", " ", "C",
                                                              "o", "s", "t", " ",
                                                              "P", "l", "u", "s",
                                                              " ", "D", "r", "u",
                                                              "g", "s">>,
      <<"G", "l", "o", "w", " ", "R", "e", "c", "i", "p", "e", " ", "L", "i", "m",
        "i", "t", "e", "d">>, <<"I", "n", ".", "c">>, <<"F", "a", "i", "l", "e", "d", " ", "S",
                                           "t", "a", "r", "t", "u", "p", " ", "C",
                                           "o">> }

\* the cases of test_date_extraction and two more: the text, the date_type of
\* its keyword phrase and the date written after it
DateCases ==
    << [text |-> <<"C", "l", "o", "s", "i", "n", "g", " ", "d", "a", "t", "e", ":",
                   " ", "J", "a", "n", "u", "a", "r", "y", " ", "1", "5", ",", " ",
                   "2", "0", "2", "5">>, date_type |-> "close_date",
        date |-> [y |-> 2025, m |-> 1, d |-> 15, t |-> 0]],
       [text |-> <<"A", "s", " ", "o", "f", " ", "0", "1", "/", "2", "0", "/", "2",
                   "0", "2", "5">>, date_type |-> "as_of_date",
        date |-> [y |-> 2025, m |-> 1, d |-> 20, t |-> 0]],
       [text |-> <<"Q", "u", "a", "r", "t", "e", "r", " ", "e", "n", "d", "i", "n",
                   "g", " ", "2", "0", "2", "5", "-", "0", "3", "-", "3", "1">>, date_type |-> "period",
        date |-> [y |-> 2025, m |-> 3, d |-> 31, t |-> 0]],
       [text |-> <<"C", "l", "o", "s", "i", "n", "g", " ", "d", "a", "t", "e", " ",
                   "0", "2", "/", "0", "3", "/", "2", "0", "2", "5", ",", " ", "c",
                   "l", "o", "s", "e", "d", " ", "M", "a", "r", "c", "h", " ", "1",
                   ",", " ", "2", "0", "2", "4">>, date_type |-> "close_date",
        date |-> [y |-> 2024, m |-> 3, d |-> 1, t |-> 0]],
       [text |-> <<"F", "o", "r", " ", "t", "h", "e", " ", "p", "e", "r", "i", "o",
                   "d", ":", " ", "1", "2", "/", "3", "1", "/", "2", "0", "2", "4">>, date_type |-> "period",
        date |-> [y |-> 2024, m |-> 12, d |-> 31, t |-> 0]] >>

ProbeDates ==
    /\ probe.fn = "none"
    /\ \E k \in 1..Len(DateCases) :
          probe' = [fn |-> "extract_dates", case |-> DateCases[k],
                    result |-> extract_dates(DateCases[k].text)]
    /\ UNCHANGED <<store, blobs, clock, delivered, worker, snapshot, parser, connections>>

\* a title row, which names no canonical field
TitleRow ==
    << <<"P", "o", "r", "t", "f", "o", "l", "i", "o", " ", "R", "e", "p", "o", "r",
         "t">>, NaN, NaN, NaN, NaN, NaN >>

RECURSIVE Titles(_)
Titles(n) == IF n = 0 THEN <<>> ELSE <<TitleRow>> \o Titles(n - 1)

\* rows above the header in the frames given to find_header_row
MaxTitleRows == 22

\* frames with the header below n title rows, and frames without a header
HeaderFrames ==
    {Titles(n) \o <<header, row>> :
        n \in 0..MaxTitleRows, header \in ProbeHeaders, row \in ProbeRows}
    \cup {Titles(n) : n \in 1..2}

\* find_header_row of every such frame, computed once
HeaderRowTable == [df \in HeaderFrames |-> find_header_row(df)]

ProbeHeaderRow ==
    /\ probe.fn = "none"
    /\ \E df \in HeaderFrames :
          probe' = [fn |-> "find_header_row", df |-> df, result |-> HeaderRowTable[df]]
    /\ UNCHANGED <<store, blobs, clock, delivered, worker, snapshot, parser, connections>>

\* map_columns of every name variant of the table, given as the only column
VariantTable ==
    [k \in 1..Len(COLUMN_MAPPINGS) |->
        [v \in 1..Len(COLUMN_MAPPINGS[k].variations) |->
            map_columns(<<COLUMN_MAPPINGS[k].variations[v]>>)[1]]]

ProbeMapColumns ==
    /\ probe.fn = "none"
    /\ \E k \in 1..Len(COLUMN_MAPPINGS) :
          \E v \in 1..Len(COLUMN_MAPPINGS[k].variations) :
              probe' = [fn |-> "map_columns", field |-> COLUMN_MAPPINGS[k].name,
                        header |-> COLUMN_MAPPINGS[k].variations[v],
                        result |-> VariantTable[k][v]]
    /\ UNCHANGED <<store, blobs, clock, delivered, worker, snapshot, parser, connections>>

\* a directory in which one normalised name contains an earlier one
TabularDirectory ==
    << [company_id |-> "bolt", legal_name |-> <<"B", "o", "l", "t">>, aka |-> NoText,
        website |-> NoText],
       [company_id |-> "bolte", legal_name |-> <<"B", "o", "l", "t", " ", "E", "n",
                                                 "e", "r", "g", "y">>, aka |-> NoText,
        website |-> NoText],
       [company_id |-> "acme", legal_name |-> <<"A", "c", "m", "e", " ", "I", "n",
                                                "c">>, aka |-> NoText,
        website |-> NoText] >>

\* the lookups of a parser: none, of the pipeline's directory, of this one
ProbeLookups ==
    {<<>>, _build_company_lookup(CompanyTable), _build_company_lookup(TabularDirectory)}

\* company cells of the rows given to the resolution
ResolveNames ==
    { <<"B", "o", "l", "t">>, <<"B", "o", "l", "t", " ", "E", "n", "e", "r", "g", "y">>, <<"B", "o", "l", "t", " ", "E", "n", "e", "r",
                                   "g", "y", " ", "E", "u", "r", "o", "p", "e">>, <<"E", "n", "e", "r", "g",
                                                           "y">>, <<"A", "c",
                                                                       "m", "e">>,
      <<"C", "h", "a", "p", "u", "l", " ", "L", "L", "C">>, <<"I", "n", "c", ".">> }

\* the row loop on a row of one column, the company name
ProbeResolve ==
    /\ probe.fn = "none"
    /\ \E lookup \in ProbeLookups, company_name \in ResolveNames :
          probe' = [fn |-> "resolve", lookup |-> lookup, company_name |-> company_name,
                    result |-> ProcessRow(lookup, <<"company">>, 2, <<company_name>>)]
    /\ UNCHANGED <<store, blobs, clock, delivered, worker, snapshot, parser, connections>>

ProbeNormalize ==
    /\ probe.fn = "none"
    /\ \E name \in ProbeNames :
          probe' = [fn |-> "_normalize_company_name", name |-> name,
                    result |-> _normalize_company_name(name)]
    /\ UNCHANGED <<store, blobs, clock, delivered, worker, snapshot, parser, connections>>

ProbeClassify ==
    /\ probe.fn = "none"
    /\ probe' = [fn |-> "_classify_email", email_data |-> probe.email_data,
                 result |-> _classify_email(probe.email_data.subject,
                                            probe.email_data.body)]
    /\ UNCHANGED <<store, blobs, clock, delivered, worker, snapshot, parser, connections>>

ProbeMatch ==
    /\ probe.fn = "none"
    /\ probe' = [fn |-> "match_company", email_data |-> probe.email_data,
                 result |-> match_company(company_cache, probe.email_data.from,
                                          probe.email_data.subject,
                                          probe.email_data.body)]
    /\ UNCHANGED <<store, blobs, clock, delivered, worker, snapshot, parser, connections>>

ProbeAmounts ==
    /\ probe.fn = "none"
    /\ probe' = [fn |-> "extract_amounts", email_data |-> probe.email_data,
                 result |-> extract_amounts(probe.email_data.body)]
    /\ UNCHANGED <<store, blobs, clock, delivered, worker, snapshot, parser, connections>>

ProbeExtract ==
    /\ probe.fn = "none"
    /\ probe' = [fn |-> "extract_from_email", email_data |-> probe.email_data,
                 result |-> extract_from_email(probe.email_data, clock).result]
    /\ UNCHANGED <<store, blobs, clock, delivered, worker, snapshot, parser, connections>>

\* ownership cells: written with a percent sign, and as bare numbers
PercentCells ==
    { <<"5", ".", "2", "%">>, <<"3", ".", "7", "5", "%">>, <<"1", "5", "%">>, <<"1", "0", "0", "%">>, <<"1", ".", "5", "%">>, <<"1", "%">>, <<"0", ".", "5", "%">>,
      <<"0", "%">>, <<" ", "1", "2", "%", " ">>, <<"0", ".", "1", "5">>, <<"1", "5">>, <<"n", "/", "a">> }

ProbePercentage ==
    /\ probe.fn = "none"
    /\ \E value \in PercentCells :
          probe' = [fn |-> "clean_percentage", value |-> value,
                    result |-> clean_percentage(value)]
    /\ UNCHANGED <<store, blobs, clock, delivered, worker, snapshot, parser, connections>>

NextFn ==
    \/ ProbeClassify
    \/ ProbeMatch
    \/ ProbeAmounts
    \/ ProbeExtract
    \/ ProbeNormalize
    \/ ProbeDates
    \/ ProbeHeaderRow
    \/ ProbeMapColumns
    \/ ProbeResolve
    \/ ProbePercentage

SpecFn == InitFn /\ [][NextFn]_vars

(***************************************************************************)
(* Properties of persist_extraction                                        *)
(***************************************************************************)

Last(q) == q[Len(q)]

IsPrefix(p, q) == Len(p) <= Len(q) /\ SubSeq(q, 1, Len(p)) = p

\* the statements the facts of an envelope call for, by name, in the order
\* of the fact lists
FactOps(env) ==
    [k \in 1..Len(env.facts.cashflows) |-> "insert_cashflow"]
    \o [k \in 1..Len(env.facts.ownerships) |-> "upsert_ownership"]
    \o [k \in 1..Len(env.facts.updates) |-> "insert_update"]

\* the pending writes are one write per fact of the envelope, each carrying
\* its fact, and the ingestion-log row of the envelope
CompleteWrites(env, txn) ==
    LET nc == Len(env.facts.cashflows)
        no == Len(env.facts.ownerships)
        nu == Len(env.facts.updates)
        of(row) == /\ row.company_id = env.company_id
                   /\ row.source_id = env.source_ptr.source_id
    IN  /\ Len(txn) = nc + no + nu + 1
        /\ \A k \in 1..nc :
              /\ txn[k].table = "cashflow" /\ of(txn[k].row)
              /\ txn[k].row.amount = env.facts.cashflows[k].amount
              /\ txn[k].row.date = env.facts.cashflows[k].date
        /\ \A k \in 1..no :
              /\ txn[nc + k].table = "ownership" /\ of(txn[nc + k].row)
              /\ txn[nc + k].row.as_of_date = env.facts.ownerships[k].as_of_date
              /\ txn[nc + k].row.fully_diluted_pct = env.facts.ownerships[k].fully_diluted_pct
        /\ \A k \in 1..nu :
              /\ txn[nc + no + k].table = "update" /\ of(txn[nc + no + k].row)
              /\ txn[nc + no + k].row.report_period = env.facts.updates[k].report_period
              /\ txn[nc + no + k].row.metrics = env.facts.updates[k].metrics
        /\ txn[Len(txn)].table = "ingestion_log" /\ of(txn[Len(txn)].row)

\* C1: persist_extraction is all-or-nothing per envelope.  The committed
\* tables change only in a step in which one call returns success, and that
\* step commits every cashflow, ownership and update write of the call's
\* envelope together with its ingestion-log row; a call that raises, and every
\* other step, commits nothing.
C1_AllOrNothing ==
    [][store' # store =>
         \E w \in Workers :
             /\ worker[w].pc = "persist"
             /\ worker'[w].pc = "returned"
             /\ worker'[w].outcome = "success"
             /\ CompleteWrites(Envelope(worker[w]), worker[w].txn)
             /\ store' = ApplyAll(store, worker[w].txn)]_vars

\* a call has returned success for an envelope of several facts, whose rows
\* and log row are committed
C1_Witness ==
    \E w \in Workers :
        /\ worker[w].pc = "returned"
        /\ worker[w].outcome = "success"
        /\ Len(FactOps(Envelope(worker[w]))) >= 2
        /\ \E r \in Rows(store.cashflow) :
              r.source_id = Envelope(worker[w]).source_ptr.source_id
        /\ \E r \in Rows(store.ingestion_log) :
              r.source_id = Envelope(worker[w]).source_ptr.source_id

\* the first call of the repeated persist has committed
FirstCallSucceeded == snapshot.ingestion_log # EmptyBag

\* C2: persisting the same envelope twice in sequence leaves the stored
\* cashflow, ownership and update facts as the first persist left them, and
\* the records_created of the second call is 0 for every fact kind.
C2_PersistTwiceIdempotent ==
    \A w \in Workers :
        (/\ worker[w].calls = 2
         /\ worker[w].pc = "returned"
         /\ worker[w].outcome = "success"
         /\ FirstCallSucceeded)
        => /\ store.cashflow = snapshot.cashflow
           /\ store.ownership = snapshot.ownership
           /\ store.update = snapshot.update
           /\ worker[w].records_created = ZeroCounts

\* the second persist of an envelope with facts has returned success after
\* the first
C2_Witness ==
    \E w \in Workers :
        /\ worker[w].calls = 2
        /\ worker[w].pc = "returned"
        /\ worker[w].outcome = "success"
        /\ FirstCallSucceeded
        /\ Len(FactOps(Envelope(worker[w]))) > 0

\* the number of rows of a table that came from one source message
RowsFrom(bag, source_id) ==
    BagCardinality([r \in {x \in Rows(bag) : x.source_id = source_id} |-> CopiesIn(r, bag)])

\* C3: re-processing the same source message never double-counts.  However
\* often a message is delivered, to one worker or to two, each table holds no
\* more rows from it than one extraction of the message has facts of that
\* kind.
C3_NoDoubleCount ==
    \A m \in MessageIds :
        LET facts == ExtractionTable[m][0].result.facts
            source_id == Messages[m].id
        IN  /\ RowsFrom(store.cashflow, source_id) <= Len(facts.cashflows)
            /\ RowsFrom(store.ownership, source_id) <= Len(facts.ownerships)
            /\ RowsFrom(store.update, source_id) <= Len(facts.updates)

\* a message has been persisted with success a second time
C3_Witness ==
    \E w \in Workers :
        /\ worker[w].pc = "returned"
        /\ worker[w].outcome = "success"
        /\ RowsFrom(store.ingestion_log, Messages[worker[w].msg].id) >= 2

\* C4: when the company of an email cannot be resolved, persist_extraction
\* returns 'skipped' and leaves the fact store unchanged.  A run whose
\* company_id is None executes no statement and no commit and its call returns
\* 'skipped', and no table ever holds a row from a message that match_company
\* does not resolve.
C4_UnresolvedSkipped ==
    /\ \A w \in Workers :
          worker[w].company_id = None =>
              /\ worker[w].ops = <<>>
              /\ worker[w].txn = <<>>
              /\ worker[w].pc = "returned" => worker[w].outcome = "skipped"
    /\ \A m \in MessageIds :
          MatchTable[m] = None
          => /\ RowsFrom(store.cashflow, Messages[m].id) = 0
             /\ RowsFrom(store.ownership, Messages[m].id) = 0
             /\ RowsFrom(store.update, Messages[m].id) = 0
             /\ RowsFrom(store.ingestion_log, Messages[m].id) = 0

\* persist_extraction has returned 'skipped' for an extracted message of no
\* company, beside facts another message has committed
C4_Witness ==
    \E w \in Workers :
        /\ worker[w].pc = "returned"
        /\ worker[w].company_id = None
        /\ worker[w].outcome = "skipped"
        /\ Len(ExtractionTable[worker[w].msg][worker[w].now].result.facts.cashflows) > 0
        /\ store # EmptyStore

\* C5: if a statement of persist_extraction or the commit fails, the
\* transaction is rolled back, the error reaches the caller, the call does not
\* return success and nothing is retried.  The step that handles the failure
\* commits nothing, empties the transaction and ends the call as raised, after
\* statements each executed once in order and no commit; the run then only
\* ends.
C5_FailureRollsBack ==
    [][\A w \in Workers :
         /\ (/\ worker'[w].ops # worker[w].ops
             /\ Len(worker'[w].ops) > 0
             /\ Last(worker'[w].ops) = "rollback")
            => /\ store' = store
               /\ worker'[w].txn = <<>>
               /\ worker'[w].pc = "returned"
               /\ worker'[w].outcome = "raised"
               /\ IsPrefix(worker[w].ops,
                           FactOps(Envelope(worker[w])) \o <<"insert_log">>)
         /\ (worker[w].pc = "returned" /\ worker[w].outcome = "raised")
            => worker'[w] \in {worker[w], IdleWorker}]_vars

\* a call has raised after executing statements, and nothing of it is stored
C5_Witness ==
    \E w \in Workers :
        /\ worker[w].pc = "returned"
        /\ worker[w].outcome = "raised"
        /\ Len(worker[w].ops) >= 3
        /\ RowsFrom(store.ingestion_log, Messages[worker[w].msg].id) = 0

\* C6: every successful persist_extraction appends exactly one ingestion-log
\* row, written after all fact writes and last before the commit.  The step
\* in which a call returns success adds one row to the ingestion log, and the
\* statements of the call are the fact statements of the envelope, then the
\* log insert, then the commit.
C6_OneLogRowLast ==
    [][\A w \in Workers :
         (/\ worker[w].pc = "persist"
          /\ worker'[w].pc = "returned"
          /\ worker'[w].outcome = "success")
         => /\ BagCardinality(store'.ingestion_log)
                 = BagCardinality(store.ingestion_log) + 1
            /\ worker'[w].ops
                 = FactOps(Envelope(worker[w])) \o <<"insert_log", "commit">>]_vars

\* one call has returned success for an envelope without facts, and another
\* for an envelope whose cashflow inserts all met a conflict
C6_Witness ==
    /\ \E w \in Workers :
          /\ worker[w].pc = "returned"
          /\ worker[w].outcome = "success"
          /\ worker[w].ops = <<"insert_log", "commit">>
    /\ \E w \in Workers :
          /\ worker[w].pc = "returned"
          /\ worker[w].outcome = "success"
          /\ Len(Envelope(worker[w]).facts.cashflows) > 0
          /\ worker[w].records_created.cashflows = 0

(***************************************************************************)
(* Properties of the matcher and the extractor                             *)
(***************************************************************************)

\* the directory keys equal to the sender's domain
DomainKeys(email_from) ==
    {i \in 1..Len(company_cache) :
        /\ Len(SenderDomain(email_from)) > 0
        /\ company_cache[i][1] = SenderDomain(email_from)}

\* C7: in match_company a sender domain that is a key of the company
\* directory decides the result, whatever company names the subject and body
\* hold; the subject/body search gives the result only when the sender domain
\* is no key.
C7_DomainMatchWins ==
    probe.fn = "match_company" =>
        LET email_data == probe.email_data
            named == NameMatch(company_cache,
                               Lower(email_data.subject \o <<" ">> \o email_data.body))
        IN  /\ \A i \in DomainKeys(email_data.from) :
                  probe.result = company_cache[i][2]
            /\ DomainKeys(email_data.from) = {} => probe.result = named

\* the sender's domain is a key and the text names another company
C7_Witness ==
    /\ probe.fn = "match_company"
    /\ DomainKeys(probe.email_data.from) # {}
    /\ LET named == NameMatch(company_cache,
                              Lower(probe.email_data.subject \o <<" ">>
                                    \o probe.email_data.body))
       IN  named # None /\ named # probe.result

\* the facts of an envelope that carry a confidence, over all fact lists
ConfidenceFacts(facts) ==
    facts.rounds \o facts.ownerships \o facts.cashflows \o facts.updates
    \o facts.contacts \o facts.documents \o facts.comm

RECURSIVE TotalConfidence(_, _)
TotalConfidence(items, k) ==
    IF k = 0 THEN 0 ELSE items[k].confidence + TotalConfidence(items, k - 1)

\* C8: the confidence_overall of the envelope extract_from_email returns lies
\* in [0, 1]; it is 0.5 exactly when no fact carrying a confidence was
\* extracted, and otherwise the arithmetic mean of the confidences of all facts.
C8_ConfidenceOverall ==
    probe.fn = "extract_from_email" =>
        LET items == ConfidenceFacts(probe.result.facts)
            c == probe.result.confidence_overall
        IN  /\ c.den > 0
            /\ 0 <= c.num /\ c.num <= 100 * c.den
            /\ (c.num = 50 * c.den) <=> (Len(items) = 0)
            /\ Len(items) > 0 =>
                  c.num * Len(items) = TotalConfidence(items, Len(items)) * c.den

\* an envelope with facts of several lists and of different confidences
C8_Witness ==
    /\ probe.fn = "extract_from_email"
    /\ Len(probe.result.facts.comm) > 0
    /\ Len(probe.result.facts.cashflows) > 0
    /\ Len(probe.result.facts.ownerships) > 0

\* the rules of the classification in their order: the category, and whether
\* the tag is in the subject or the phrase where the source looks for it (the
\* subject for 'monthly update', the body for the others), both in lower case
ClassifyRules(subject_lower, body_lower) ==
    << [category |-> "UPDATE",
        matches |-> \/ Contains(subject_lower, <<"[", "u", "p", "d", "a", "t", "e", "]">>)
                    \/ Contains(subject_lower,
                                <<"m", "o", "n", "t", "h", "l", "y", " ",
                                  "u", "p", "d", "a", "t", "e">>)],
       [category |-> "FINANCIALS",
        matches |-> \/ Contains(subject_lower,
                                <<"[", "f", "i", "n", "a", "n", "c", "i", "a", "l", "s", "]">>)
                    \/ Contains(body_lower,
                                <<"f", "i", "n", "a", "n", "c", "i", "a", "l", " ",
                                  "s", "t", "a", "t", "e", "m", "e", "n", "t", "s">>)],
       [category |-> "BOARD",
        matches |-> \/ Contains(subject_lower, <<"[", "b", "o", "a", "r", "d", "]">>)
                    \/ Contains(body_lower,
                                <<"b", "o", "a", "r", "d", " ", "d", "e", "c", "k">>)],
       [category |-> "NOTEBOOKLM",
        matches |-> \/ Contains(subject_lower,
                                <<"[", "n", "o", "t", "e", "b", "o", "o", "k", "l", "m", "]">>)
                    \/ Contains(body_lower,
                                <<"n", "o", "t", "e", "b", "o", "o", "k", " ", "l", "m">>)],
       [category |-> "CAPTABLE",
        matches |-> \/ Contains(subject_lower,
                                <<"[", "c", "a", "p", "t", "a", "b", "l", "e", "]">>)
                    \/ Contains(body_lower, <<"c", "a", "p", " ", "t", "a", "b", "l", "e">>)] >>

\* the rules a message satisfies, by position in the order
RulesMatched(email_data) ==
    LET rules == ClassifyRules(Lower(email_data.subject), Lower(email_data.body))
    IN  {k \in 1..Len(rules) : rules[k].matches}

Categories == <<"UPDATE", "FINANCIALS", "BOARD", "NOTEBOOKLM", "CAPTABLE">>

\* C9: _classify_email is total and first-match-wins over the rule order
\* UPDATE, FINANCIALS, BOARD, NOTEBOOKLM, CAPTABLE.  The result is the category
\* of the earliest rule the message satisfies, and GENERAL exactly when it
\* satisfies none.
C9_FirstMatchWins ==
    probe.fn = "_classify_email" =>
        LET matched == RulesMatched(probe.email_data)
        IN  /\ probe.result \in {Categories[k] : k \in 1..Len(Categories)} \cup {"GENERAL"}
            /\ (probe.result = "GENERAL") <=> (matched = {})
            /\ \A k \in matched :
                  (\A j \in matched : k <= j) => probe.result = Categories[k]

\* a message that satisfies several rules, the earliest not being the first
C9_Witness ==
    /\ probe.fn = "_classify_email"
    /\ Cardinality(RulesMatched(probe.email_data)) >= 2
    /\ 1 \notin RulesMatched(probe.email_data)

\* C10: for a text holding an amount in a supported surface form,
\* extract_amounts returns a non-empty sequence whose first amount is the
\* literal value, separators stripped and the magnitude suffix applied.
C10_FirstAmountLiteral ==
    probe.fn = "extract_amounts" =>
        \A k \in 1..Len(AmountCases) :
            AmountCases[k].text = probe.email_data.body
            => /\ Len(probe.result) > 0
               /\ probe.result[1].amount = AmountCases[k].amount

\* extract_amounts has been applied to the text of a case and returned the
\* amount expected
C10_Witness ==
    /\ probe.fn = "extract_amounts"
    /\ \E k \in 1..Len(AmountCases) :
          /\ AmountCases[k].text = probe.email_data.body
          /\ Len(probe.result) > 0
          /\ probe.result[1].amount = AmountCases[k].amount

InvestmentWords ==
    { <<"i", "n", "v", "e", "s", "t", "e", "d">>, <<"i", "n", "v", "e", "s", "t", "m", "e", "n", "t">>, <<"a", "m", "o", "u", "n", "t">> }

ValuationWords ==
    { <<"p", "r", "e", "-", "m", "o", "n", "e", "y">>, <<"p", "o", "s", "t", "-", "m", "o", "n", "e", "y">>, <<"v", "a", "l", "u", "a", "t", "i", "o", "n">> }

\* the matches of the three amount patterns in a text, pattern by pattern
AmountMatches(text) ==
    AmountFindIter(1, text, 0) \o AmountFindIter(2, text, 0) \o AmountFindIter(3, text, 0)

\* the window of ContextWindow characters around a match holds one of the words
WindowHas(text, m, words) ==
    \E word \in words :
        Contains(Lower(Slice(text, Max(0, m.start - ContextWindow),
                             Min(Len(text), m.end + ContextWindow))), word)

\* C11 as amended: every confidence extract_amounts returns is 85, 90 or 95: 85
\* when the window around the match holds a valuation word (the valuation test
\* is made last), 95 when it holds an investment word and no valuation word,
\* 90 when it holds neither.
C11_ConfidenceByContext ==
    probe.fn = "extract_amounts" =>
        LET text == probe.email_data.body
        IN  /\ Len(probe.result) = Len(AmountMatches(text))
            /\ \A k \in 1..Len(probe.result) :
                  probe.result[k].confidence =
                      IF WindowHas(text, AmountMatches(text)[k], ValuationWords) THEN 85
                      ELSE IF WindowHas(text, AmountMatches(text)[k], InvestmentWords)
                           THEN 95 ELSE 90

\* an amount whose window holds a word of both kinds
C11_Witness ==
    /\ probe.fn = "extract_amounts"
    /\ \E k \in 1..Len(probe.result) :
          /\ WindowHas(probe.email_data.body, AmountMatches(probe.email_data.body)[k],
                       ValuationWords)
          /\ WindowHas(probe.email_data.body, AmountMatches(probe.email_data.body)[k],
                       InvestmentWords)

\* C11 as stated: 95 when the window holds an investment word, also when it
\* holds a valuation word as well; 85 when it holds a valuation word only; 90
\* when it holds neither.
C11_InvestmentBonusLast ==
    probe.fn = "extract_amounts" =>
        \A k \in 1..Len(probe.result) :
            probe.result[k].confidence =
                IF WindowHas(probe.email_data.body,
                             AmountMatches(probe.email_data.body)[k], InvestmentWords)
                THEN 95
                ELSE IF WindowHas(probe.email_data.body,
                                  AmountMatches(probe.email_data.body)[k], ValuationWords)
                     THEN 85 ELSE 90

\* C12: company-name normalisation is idempotent: normalising a normalised
\* name gives it back, also for a name whose legal-entity suffix becomes a
\* whole word only after the punctuation is stripped ('L.L.C.').
C12_NormalizeIdempotent ==
    probe.fn = "_normalize_company_name" =>
        _normalize_company_name(probe.result) = probe.result

\* a name written with a dotted suffix has been normalised, and the suffix is
\* a whole word of the result
C12_Witness ==
    /\ probe.fn = "_normalize_company_name"
    /\ probe.name = <<"B", "o", "l", "t", " ", "L", ".", "L", ".", "C", ".">>
    /\ probe.result = <<"b", "o", "l", "t", " ", "l", "l", "c">>

(***************************************************************************)
(* Properties of the tabular path                                          *)
(***************************************************************************)

\* the data rows of the frame being parsed, below the detected header
DataRows == SubSeq(parser.df, parser.header_row + 2, Len(parser.df))

IsBlankRow(row) == \A c \in 1..Len(row) : row[c] = NaN

\* C13: the number of records parse_file returns plus the number of rows
\* dropped as aggregate rows (first cell holds Total, Summary or Grand) or as
\* blank rows equals the number of data rows below the detected header: no row
\* is lost for another reason, such as a cell that failed to parse.
C13_RowCount ==
    parser.pc = "returned" =>
        Len(parser.result.data)
            + Cardinality({i \in 1..Len(DataRows) :
                              IsSummaryRow(DataRows[i]) \/ IsBlankRow(DataRows[i])})
        = Len(DataRows)

\* a frame with a record, an aggregate row and the count in balance
C13_Witness ==
    /\ parser.pc = "returned"
    /\ Len(parser.result.data) = 1
    /\ Len(DataRows) = 2
    /\ \E i \in 1..Len(DataRows) : IsSummaryRow(DataRows[i])

\* the row the next iteration of the loop processes
CurrentRow == parser.rows[parser.pos + 1].row

\* an iteration of the row loop
RowStep == parser.pc = "rows" /\ parser'.pc = "rows" /\ parser'.pos = parser.pos + 1

\* the cell of the last column mapped to a canonical field, NaN if none is
FieldCell(field) ==
    LET cs == {c \in 1..Len(parser.column_mapping) : parser.column_mapping[c] = field}
    IN  IF cs = {} THEN NaN ELSE CurrentRow[CHOOSE c \in cs : \A j \in cs : j <= c]

\* the validation rules the current row violates, by the values of its cells
RowViolations ==
    Validate([amount_invested |-> clean_currency(FieldCell("amount_invested")),
              distributions |-> clean_currency(FieldCell("distributions")),
              ownership_pct |-> clean_percentage(FieldCell("ownership")),
              investment_date |-> parse_date(FieldCell("date"))])

\* the entries an iteration appends to the reconciliation log
NewEntries ==
    SubSeq(parser'.reconciliation_log, Len(parser.reconciliation_log) + 1,
           Len(parser'.reconciliation_log))

\* C14: a row that violates validation rules is never dropped: it is appended
\* to the output records, and each rule it violates appends an issue of its
\* own (a row violating k rules adds k issues).
C14_ViolationsKeepRow ==
    [][RowStep /\ Len(RowViolations) > 0
       => /\ Len(parser'.extracted_data) = Len(parser.extracted_data) + 1
          /\ Cardinality({i \in 1..Len(NewEntries) : "data" \in DOMAIN NewEntries[i]})
             = Len(RowViolations)]_vars

\* a row violating two rules has been processed and is in the output
C14_Witness ==
    /\ parser.pc = "rows"
    /\ parser.extracted_data # <<>>
    /\ \E i \in 1..Len(parser.reconciliation_log) :
          /\ "data" \in DOMAIN parser.reconciliation_log[i]
          /\ Len(parser.reconciliation_log[i].issue) = 2
          /\ parser.reconciliation_log[i].data
                 = parser.extracted_data[Len(parser.extracted_data)]

\* the header of the sample file of the test suite
TestHeader ==
    << <<"N", "a", "m", "e", " ", "o", "f", " ", "C", "o", "m", "p", "a", "n", "y">>, <<"T", "o", "t", "a", "l", " ", "A", "m", "o", "u",
                              "n", "t", " ", "I", "n", "v", "e", "s", "t", "e", "d">>, <<"E", "a", "r", "l", "i",
                                                         "e", "s", "t", " ", "D",
                                                         "a", "t", "e", " ", "o",
                                                         "f", " ", "I", "n", "v",
                                                         "e", "s", "t", "m", "e",
                                                         "n", "t">>,
       <<"E", "q", "u", "i", "t", "y", " ", "%">>, <<"S", "t", "a", "t", "u", "s">>, <<"D", "i", "s", "t", "r", "i", "b", "u", "t",
                                   "i", "o", "n", "s">> >>

ChapulRow ==
    << <<"C", "h", "a", "p", "u", "l", " ", "L", "L", "C">>, <<"$", "7", "5", "0", "k">>, <<"2", "0", "2", "0", "-", "0", "9", "-", "1", "0">>, <<"3", ".", "7", "5", "%">>, <<"A", "c", "t", "i",
                                                               "v", "e">>, <<"$", "0">> >>

\* a first call of parse_file, without a directory, on a file of Chapul rows
\* under the header of the test suite has returned
ChapulParsed ==
    /\ parser.pc = "returned"
    /\ parser.calls = 1
    /\ parser.company_lookup = <<>>
    /\ parser.header_row = 0
    /\ parser.df[1] = TestHeader
    /\ Len(DataRows) > 0
    /\ \A i \in 1..Len(DataRows) : DataRows[i] = ChapulRow

\* C15: parsing a file with the header 'Name of Company, Total Amount Invested,
\* Earliest Date of Investment, Equity %, Status, Distributions' and an empty
\* company directory emits one record per data row; the row 'Chapul LLC, $750k,
\* 2020-09-10, 3.75%, Active, $0' yields amount_invested 750000, ownership_pct
\* 3.75, distributions 0 and a generated company_id, and adds exactly one
\* reconciliation issue, 'Company not found in database'.
C15_ChapulRow ==
    ChapulParsed =>
        /\ Len(parser.result.data) = Len(DataRows)
        /\ \A i \in 1..Len(parser.result.data) :
              /\ parser.result.data[i].amount_invested = [coef |-> 75, exp |-> 4]
              /\ parser.result.data[i].ownership_pct = [coef |-> 375, exp |-> -2]
              /\ parser.result.data[i].distributions = [coef |-> 0, exp |-> 0]
              /\ "slug" \in DOMAIN parser.result.data[i].company_id
        /\ Len(parser.result.log) = Len(DataRows)
        /\ \A i \in 1..Len(parser.result.log) :
              /\ "issue" \in DOMAIN parser.result.log[i]
              /\ parser.result.log[i].issue = <<"Company not found in database">>

\* the file of the scenario has been parsed and the company was not found
C15_Witness ==
    /\ ChapulParsed
    /\ Len(DataRows) = 1
    /\ parser.result.log[1].suggested_id = [slug |-> <<"c", "h", "a", "p", "u",
                                                       "l", "-", "l", "l", "c">>]

CurrencyFields == {"amount_invested", "distributions", "valuation"}

\* C19: clean_currency never raises: for a cell that is not numeric after
\* stripping '$', commas, whitespace, parentheses and a k/M/B suffix it returns
\* the absent value and processing of the row continues, so a row with a
\* company name is emitted by parse_file whatever its currency cells hold.
C19_CurrencyNeverRaises ==
    [][RowStep /\ parser.column_mapping[1] = "company" /\ CurrentRow[1] # NaN
       => /\ \A c \in 1..Len(parser.column_mapping) :
                parser.column_mapping[c] \in CurrencyFields
                    => clean_currency(CurrentRow[c]) # NameError
          /\ Len(parser'.extracted_data) = Len(parser.extracted_data) + 1]_vars

\* a row whose amount cell is not numeric has been processed
C19_Witness ==
    /\ parser.pc = "rows"
    /\ \E i \in 1..Len(parser.reconciliation_log) :
          /\ "raw_data" \in DOMAIN parser.reconciliation_log[i]
          /\ \E c \in 1..Len(parser.column_mapping) :
                /\ parser.column_mapping[c] = "amount_invested"
                /\ parser.reconciliation_log[i].raw_data[c] = <<"T", "B", "D">>

(***************************************************************************)
(* Properties of the end-to-end scenarios of the email path                *)
(***************************************************************************)

\* extract_from_email has been applied to the probed message
Extracted == probe.fn = "extract_from_email"

\* the text extract_from_email works on
ProbedText == probe.email_data.subject \o <<"\n">> \o probe.email_data.body

ProbedType == _classify_email(probe.email_data.subject, probe.email_data.body)

\* the message is an investment confirmation in the words of the scenario
IsConfirmation ==
    /\ Contains(ProbedText, <<"$", "7", "5", "0", ",", "0", "0", "0", " ", "i",
                              "n", "v", "e", "s", "t", "m", "e", "n", "t">>)
    /\ Contains(ProbedText, <<"3", ".", "7", "5", "%", " ", "o", "n", " ", "a",
                              " ", "f", "u", "l", "l", "y", " ", "d", "i", "l",
                              "u", "t", "e", "d", " ", "b", "a", "s", "i", "s">>)

\* C16: extract_from_email on an investment-confirmation email whose text
\* contains '$750,000 investment' and '3.75% on a fully diluted basis' returns
\* an envelope with exactly one Cashflow fact (kind Investment, amount 750000)
\* and exactly one Ownership fact (fully_diluted_pct 3.75).
C16_InvestmentConfirmation ==
    Extracted /\ IsConfirmation =>
        /\ Len(probe.result.facts.cashflows) = 1
        /\ probe.result.facts.cashflows[1].kind = "Investment"
        /\ probe.result.facts.cashflows[1].amount = [coef |-> 75, exp |-> 4]
        /\ Len(probe.result.facts.ownerships) = 1
        /\ probe.result.facts.ownerships[1].fully_diluted_pct = [coef |-> 375, exp |-> -2]

\* the confirmation of the test suite has been extracted
C16_Witness ==
    /\ Extracted
    /\ IsConfirmation
    /\ Contains(ProbedText, <<"M", "C", "C", " ", "o", "w", "n", "e", "r", "s",
                              "h", "i", "p", ":", " ", "3", ".", "7", "5", "%">>)
    /\ ProbedType = "GENERAL"

\* the value the metrics mapping holds under a metric name
MetricOf(metrics, name) ==
    metrics[CHOOSE k \in 1..Len(MetricNames) : MetricNames[k] = name]

\* C17: a message classified UPDATE yields exactly one Update fact, and its
\* metrics hold each value as a numeric string with the k/M suffix expanded to
\* an integer literal: a body with 'ARR: $15.5M', 'Runway: 18 months',
\* 'Headcount: 52' gives ARR "15500000", runway_months "18", headcount "52".
C17_UpdateMetrics ==
    Extracted /\ ProbedType = "UPDATE" =>
        /\ Len(probe.result.facts.updates) = 1
        /\ (/\ Contains(ProbedText, <<"A", "R", "R", ":", " ", "$", "1", "5", ".",
                                      "5", "M">>)
            /\ Contains(ProbedText, <<"R", "u", "n", "w", "a", "y", ":", " ", "1",
                                      "8", " ", "m", "o", "n", "t", "h", "s">>)
            /\ Contains(ProbedText, <<"H", "e", "a", "d", "c", "o", "u", "n", "t",
                                      ":", " ", "5", "2">>))
           => /\ MetricOf(probe.result.facts.updates[1].metrics, "ARR") = <<"1",
                                                                            "5",
                                                                            "5",
                                                                            "0",
                                                                            "0",
                                                                            "0",
                                                                            "0", "0">>
              /\ MetricOf(probe.result.facts.updates[1].metrics, "runway_months") = <<
                                                                                      "1",
                                                                                      "8">>
              /\ MetricOf(probe.result.facts.updates[1].metrics, "headcount") = <<
                                                                                  "5",
                                                                                  "2">>

\* the update of the scenario has been extracted into one Update fact
C17_Witness ==
    /\ Extracted
    /\ ProbedType = "UPDATE"
    /\ Contains(ProbedText, <<"A", "R", "R", ":", " ", "$", "1", "5", ".", "5", "M">>)
    /\ Len(probe.result.facts.updates) = 1
    /\ MetricOf(probe.result.facts.updates[1].metrics, "runway_months") = <<"1", "8">>

\* C18: for a text in which a keyword phrase of a date_type is directly
\* followed by a date written as 'Month D, YYYY', as 'MM/DD/YYYY' or as
\* 'YYYY-MM-DD', extract_dates returns a mapping whose entry for that type is
\* that date, taken from the first keyword phrase in list order that has a
\* parseable trailing date.
C18_KeywordDates ==
    probe.fn = "extract_dates" => probe.result[probe.case.date_type] = probe.case.date

\* a date written MM/DD/YYYY after 'As of' has been extracted
C18_Witness ==
    /\ probe.fn = "extract_dates"
    /\ probe.case.text = <<"A", "s", " ", "o", "f", " ", "0", "1", "/", "2", "0",
                           "/", "2", "0", "2", "5">>
    /\ probe.result.as_of_date = [y |-> 2025, m |-> 1, d |-> 20, t |-> 0]

\* C20: for every message classified NOTEBOOKLM, extract_from_email returns an
\* envelope whose confidence_overall is below 0.8 and whose facts.updates holds
\* at least one entry carrying the extracted metrics mapping.
C20_NotebookUpdates ==
    Extracted /\ ProbedType = "NOTEBOOKLM" =>
        /\ probe.result.confidence_overall.num < 80 * probe.result.confidence_overall.den
        /\ \E k \in 1..Len(probe.result.facts.updates) :
              "metrics" \in DOMAIN probe.result.facts.updates[k]

\* a NOTEBOOKLM message with metrics in it has been extracted
C20_Witness ==
    /\ Extracted
    /\ ProbedType = "NOTEBOOKLM"
    /\ Len(probe.result.facts.comm) = 1
    /\ MetricOf(probe.result.facts.comm[1].extracted_fields, "headcount") = <<"5",
                                                                              "2">>

(***************************************************************************)
(* Properties of main                                                      *)
(***************************************************************************)

\* the raw message of worker w is in the BlobSink
MessageArchived(w) ==
    \E b \in blobs : b.folder = "Email-Exports" /\ b.name = <<Messages[worker[w].msg].id>>

\* C21: in main the raw message is archived to the BlobSink before, and
\* independently of, fact extraction: once extract_from_email has returned for
\* a fetched message, the archive write has already happened.
C21_ArchiveBeforeExtraction ==
    \A w \in Workers : worker[w].pc \in {"archive", "persist"} => MessageArchived(w)

\* a run has extracted and archived its message and is about to persist
C21_Witness ==
    \E w \in Workers :
        /\ worker[w].pc = "persist"
        /\ worker[w].company_id # None
        /\ MessageArchived(w)

(***************************************************************************)
(* Properties of the helpers of the tabular path                           *)
(***************************************************************************)

\* the canonical fields one of whose name variants occurs in the text of a row
FieldsNamed(row) ==
    {k \in 1..Len(COLUMN_MAPPINGS) :
        \E v \in 1..Len(COLUMN_MAPPINGS[k].variations) :
            Contains(JoinCells(row), COLUMN_MAPPINGS[k].variations[v])}

\* the rows of the probed frame, by index, that name at least three fields
HeaderCandidates(last) ==
    {i \in 0..last : i < Len(probe.df) /\ Cardinality(FieldsNamed(probe.df[i + 1])) >= 3}

\* the least index among the candidates, 0 when there is none
FirstCandidate(S) == IF S = {} THEN 0 ELSE CHOOSE i \in S : \A j \in S : i <= j

\* C22: find_header_row returns the index of the first row, among the first 20
\* rows only (indices 0..19), whose text names at least 3 distinct canonical
\* fields, and 0 when there is no such row among them; a qualifying row at
\* index 20 or later is never returned.
C22_HeaderInFirstTwenty ==
    probe.fn = "find_header_row" => probe.result = FirstCandidate(HeaderCandidates(19))

\* the header stands at index 19 and is returned
C22_Witness ==
    /\ probe.fn = "find_header_row"
    /\ HeaderCandidates(MaxTitleRows + 1) = {19}
    /\ probe.result = 19

\* C23: map_columns maps every header that is literally one of the listed name
\* variants of a canonical field to that canonical field (e.g. 'Name of
\* Company' to company, 'Total $ Invested' to amount_invested, 'Equity
\* Percentage' to ownership), for every variant in the COLUMN_MAPPINGS table.
C23_VariantsMapToOwnField ==
    probe.fn = "map_columns" => probe.result = probe.field

\* a variant listed under amount_invested has been mapped to amount_invested
C23_Witness ==
    /\ probe.fn = "map_columns"
    /\ probe.header = <<"T", "o", "t", "a", "l", " ", "$", " ", "I", "n", "v", "e",
                        "s", "t", "e", "d">>
    /\ probe.result = "amount_invested"

\* the value of a cell is a Decimal
IsDecimal(v) == "coef" \in DOMAIN v

\* the rules the current row breaks, by the values of its cells, each under
\* the name its issue carries
RulesBroken ==
    LET distributions(amount, paid) ==
            IF IsDecimal(amount) /\ IsDecimal(paid) /\ DecimalLess(Scale(amount, 1), paid)
            THEN {"Distributions exceed 10x investment"} ELSE {}
        ownership(pct) ==
            IF IsDecimal(pct) /\ DecimalLess([coef |-> 100, exp |-> 0], pct)
            THEN {"Ownership > 100%"}
            ELSE IF IsDecimal(pct) /\ DecimalLess(pct, [coef |-> 0, exp |-> 0])
            THEN {"Negative ownership"} ELSE {}
        dated(when) ==
            IF "y" \notin DOMAIN when THEN {}
            ELSE IF \/ when.y > Today.y
                    \/ when.y = Today.y /\ when.m > Today.m
                    \/ when.y = Today.y /\ when.m = Today.m /\ when.d > Today.d
            THEN {"Future investment date"}
            ELSE IF when.y < FirstInvestmentYear THEN {"Investment date before 1990"}
            ELSE {}
    IN  distributions(clean_currency(FieldCell("amount_invested")),
                      clean_currency(FieldCell("distributions")))
        \cup ownership(clean_percentage(FieldCell("ownership")))
        \cup dated(parse_date(FieldCell("date")))

\* C24: parse_file flags every row that violates a validation rule: whenever a
\* row's distributions exceed 10 times its invested amount (an invested amount
\* of 0 included), or its ownership is outside [0,100], or its investment date
\* is in the future or before 1990-01-01, an issue naming that violation is
\* appended for the row.
C24_EveryViolationFlagged ==
    [][RowStep =>
          \A rule \in RulesBroken :
              \E i \in 1..Len(NewEntries) :
                  /\ "issue" \in DOMAIN NewEntries[i]
                  /\ \E k \in 1..Len(NewEntries[i].issue) : NewEntries[i].issue[k] = rule]_vars

\* a row with a future investment date has been flagged
C24_Witness ==
    /\ parser.pc = "rows"
    /\ \E i \in 1..Len(parser.reconciliation_log) :
          /\ "data" \in DOMAIN parser.reconciliation_log[i]
          /\ parser.reconciliation_log[i].issue = <<"Future investment date">>

\* C25: an envelope returned by extract_from_email holds at most one Ownership
\* fact: exactly one when an ownership percentage pattern matches the text and
\* none otherwise, for every category including CAPTABLE.
C25_AtMostOneOwnership ==
    Extracted =>
        Len(probe.result.facts.ownerships)
            = (IF extract_ownership(ProbedText).found THEN 1 ELSE 0)

\* a CAPTABLE message whose text holds an ownership percentage was extracted
C25_Witness ==
    /\ Extracted
    /\ ProbedType = "CAPTABLE"
    /\ extract_ownership(ProbedText).found
    /\ probe.result.facts.ownerships # <<>>

ExactEntries(lookup, normalized_name) ==
    {i \in 1..Len(lookup) : lookup[i][1] = normalized_name}

\* the directory entries whose key contains the normalised name or is
\* contained in it
FuzzyEntries(lookup, normalized_name) ==
    {i \in 1..Len(lookup) :
        \/ Contains(lookup[i][1], normalized_name)
        \/ Contains(normalized_name, lookup[i][1])}

\* the 'Company not found in database' issues among the entries of a log
NotFoundIssues(log) ==
    {i \in 1..Len(log) :
        "suggested_id" \in DOMAIN log[i]
        /\ log[i].issue = <<"Company not found in database">>}

\* C27: in the tabular path company resolution follows strict precedence: if
\* the normalised name is a key of the directory its company_id is used;
\* otherwise the first directory entry, in insertion order, whose key contains
\* the normalised name or is contained in it; only when neither exists is a
\* slug generated and a 'Company not found in database' issue recorded.  An
\* exact match is never overridden by a fuzzy match.
C27_ResolutionPrecedence ==
    LET least(S) == CHOOSE i \in S : \A j \in S : i <= j
        expected(exact, fuzzy) ==
            IF exact # {}
            THEN /\ probe.result.record.company_id = probe.lookup[least(exact)][2]
                 /\ NotFoundIssues(probe.result.log) = {}
            ELSE IF fuzzy # {}
            THEN /\ probe.result.record.company_id = probe.lookup[least(fuzzy)][2]
                 /\ NotFoundIssues(probe.result.log) = {}
            ELSE /\ probe.result.record.company_id = [slug |-> Slug(probe.company_name)]
                 /\ Cardinality(NotFoundIssues(probe.result.log)) = 1
        resolved(normalized_name) ==
            expected(ExactEntries(probe.lookup, normalized_name),
                     FuzzyEntries(probe.lookup, normalized_name))
    IN  probe.fn = "resolve" =>
            /\ probe.result.outcome = "emitted"
            /\ resolved(_normalize_company_name(probe.company_name))

\* a name that is a key of the directory, while an earlier key is contained
\* in it, resolved to the entry of its own key
C27_Witness ==
    /\ probe.fn = "resolve"
    /\ probe.company_name = <<"B", "o", "l", "t", " ", "E", "n", "e", "r", "g", "y">>
    /\ probe.result.record.company_id = [id |-> "bolte"]
    /\ \E i \in FuzzyEntries(probe.lookup, <<"b", "o", "l", "t", " ", "e", "n",
                                             "e", "r", "g", "y">>) :
          probe.lookup[i][2] = [id |-> "bolt"]

\* the entries the rows of the file given to the latest call raise, from the
\* k-th row of the loop on
RECURSIVE CallLog(_)
CallLog(k) ==
    IF k > Len(parser.rows) THEN <<>>
    ELSE ProcessRow(parser.company_lookup, parser.column_mapping,
                    parser.rows[k].idx + parser.header_row + 2, parser.rows[k].row).log
         \o CallLog(k + 1)

\* C28: the issue sequence returned by parse_file contains only issues raised
\* for rows of the file given to that call: after any sequence of parse_file
\* calls on one RobustCSVParser instance, the issues returned by the latest
\* call do not include issues recorded by earlier calls.
C28_IssuesOfThisCallOnly ==
    parser.pc = "returned" => parser.result.log = CallLog(1)

\* a second call on the instance has returned, the first having recorded
\* issues
C28_Witness ==
    /\ parser.pc = "returned"
    /\ parser.calls = 2
    /\ Len(parser.result.log) > Len(CallLog(1))

\* the runs of main in progress
Running == {w \in Workers : worker[w].pc # "idle"}

\* C29: every database connection opened by main is closed on every exit
\* path: once a run of main has returned or raised (failure of storage-client
\* creation, directory load, message fetch, blob upload or persistence), no
\* connection it opened remains open, so the open connections are those of
\* the runs in progress.
C29_ConnectionsClosed ==
    connections = Cardinality(Running)

\* a run of main has ended at the creation of the storage client
C29_Witness ==
    /\ delivered > Cardinality(Running)
    /\ connections > Cardinality(Running)

\* the number written before the percent sign of a cell
Written(value) ==
    DecimalOf(Strip(SubSeq(Strip(value), 1, Len(Strip(value)) - 1)))

\* C30: clean_percentage maps a cell written with an explicit percent sign
\* 'p%' to the value p for every non-negative p ('5.2%' to 5.2, and also '1%'
\* to 1 and '0.5%' to 0.5): the result never differs from the written
\* percentage by a factor of 100.
C30_PercentSignKept ==
    (/\ probe.fn = "clean_percentage"
     /\ Last(Strip(probe.value)) = "%"
     /\ Written(probe.value).ok)
    => probe.result = Written(probe.value).value

\* '1%' has been cleaned, and the result is the Decimal 100
C30_Witness ==
    /\ probe.fn = "clean_percentage"
    /\ probe.value = <<"1", "%">>
    /\ probe.result = [coef |-> 1, exp |-> 2]

====
